---- MODULE Spec2Model ----
(***************************************************************************)
(* Crawl orchestration engine of the scraper: the priority frontier        *)
(* (crawler/queue.py, UniqueURLQueue), the shared crawl state              *)
(* (models/state_manager.py, CrawlerState), the worker loop around get     *)
(* (crawler/worker.py) and the redirect tracker (crawler/fetcher.py).      *)
(*                                                                         *)
(* The program runs on one asyncio event loop.  A coroutine runs without   *)
(* interruption until it suspends, and it suspends only where an await     *)
(* really blocks: asyncio.Lock.acquire on a held lock, Queue.get on an     *)
(* empty queue, asyncio.sleep, a network call.  Every action below is the  *)
(* code between two such suspension points.  Time is counted in ticks of   *)
(* 0.1 s, the length of the short sleep in UniqueURLQueue.get.             *)
(***************************************************************************)
EXTENDS Integers, Sequences, FiniteSets, TLC

\* ------------------------------------------------------------------------
\* Bounds of the model
\* ------------------------------------------------------------------------

\* Workers of the pool, in the order in which start_workers creates them
\* (Config.NUM_WORKERS = 18 in the program).
WorkerList == <<"w1", "w2", "w3">>

Workers == {WorkerList[i] : i \in DOMAIN WorkerList}

\* Hosts are numbered in string order; a URL is <<host, path>>, so that the
\* string order of two URLs is the lexicographic order of the pairs.
Urls == {<<1, 1>>, <<1, 2>>, <<1, 3>>, <<1, 4>>, <<2, 1>>}

Domains == {u[1] : u \in Urls}

\* Priorities a caller hands to put: 0 for seeds and critical links, 4 for
\* an ordinary link.
PutPriorities == {0, 4}

\* The clock of Spec stops at MaxTime, the clock of SpecPacing at
\* MaxPacingTime.
MaxTime == 20

MaxPacingTime == 31

\* Links that one fetched page hands to put.
MaxLinksPerPage == 1

\* URLs of the redirect tracker, and the ones that fetches start from.
RedirectUrls == {1, 2, 3, 4, 5, 6}

Origins == {1, 2}

\* Calls of add_redirect since the chains were last reset, over all origins.
MaxHops == 5

\* Pages that are handed to the checkpoint manager.
Pages == {"p1", "p2"}

\* Longest pending list, last reading of the checkpoint clock and number of
\* calls of the checkpoint manager that are explored.
MaxPending == 4

MaxCheckpointTime == 3

MaxCheckpointCalls == 5

\* Scaled-down CheckpointManager.checkpoint_interval (60 s in the program),
\* min_batch_size (10) and max_batch_size (30).
checkpoint_interval == 2

min_batch_size == 2

max_batch_size == 3

\* Branches of the crawl that SpecDepth follows, and the number of
\* expansions at depth 0 or below that it follows a branch for.
Branches == {"b1", "b2"}

MaxBeyond == 14
\* Links of one page that pass the filter of queue_links in SpecDepth.
MaxSurviving == 2

\* SpecShutdown: the --shutdown-timeout argument in ticks of one second,
\* the signals sent to the process and the time followed after the first.
shutdown_timeout == 3

MaxSignals == 2

MaxShutdownTime == 5

\* SpecNormalize: the characters of the query of a URL given to
\* normalize_url, and the length of the query.
QueryChars == {"k", "=", "&", "%", "2", "6"}

MaxQueryLen == 6


\* SpecWorker: workers of the pool and URLs that are put; errors a worker
\* has before it slows down (10 in the program).
PoolWorkers == {"w1", "w2"}

PoolUrls == {"u1", "u2", "u3"}

MaxQuietErrors == 1


\* SpecPersist: longest list of evaluated applications.
MaxEvaluated == 3


\* SpecCritical: the URLs of tasks, redirect targets and links.
CritUrls == {1, 2, 3}

\* Domains and fetches per domain in SpecRate.
RateDomains == {"d1", "d2"}
MaxFetchesPerDomain == 5

\* Tasks in the frontier and links of one page in SpecStop.
MaxStopTasks == 3
MaxStopLinks == 1

\* Priorities and depths of the tasks put in SpecStore.
StorePriorities == {0, 4, 12}

\* The statuses of a response in SpecStatus.
ResponseStatuses == {200, 404, 503}

\* Paths of the site and fetches in SpecTrail.
TrailPaths == {<<>>, <<"apply">>, <<"apply", "first-year">>}
MaxTrailFetches == 2


\* Candidate pages the workers register in SpecEval.
MaxEvalPages == 4

\* Links on one page in SpecFetch.
MaxPageLinks == 2

\* Scaled-down Config.MAX_URLS_PER_DOMAIN (500 in the program).
MAX_URLS_PER_DOMAIN == 2

\* Scaled-down UniqueURLQueue.max_per_domain (500 in the program).
max_per_domain == 3

\* Scaled-down UniqueURLQueue.max_memory_size (10000 in the program).
max_memory_size == 2

\* Scaled-down Config.MAX_TOTAL_URLS (100000 in the program).
MAX_TOTAL_URLS == 4

\* Config.MAX_DEPTH and Config.MAX_ADMISSION_DEPTH
MAX_DEPTH == 6

MAX_ADMISSION_DEPTH == 12

\* RedirectTracker.max_redirects
max_redirects == 5

\* ------------------------------------------------------------------------
\* Program constants, in ticks of 0.1 s
\* ------------------------------------------------------------------------

\* UniqueURLQueue.domain_rate_limit = 1.0 s
domain_rate_limit == 10

\* asyncio.sleep(0.1) in UniqueURLQueue.get
SleepTicks == 1

\* asyncio.wait_for(url_queue.get(), timeout=1.0) in worker
GetTimeoutTicks == 10

\* default_delay = 1.0 s in fetcher.py: the politeness sleep that starts
\* every fetch (Config defines no REQUEST_DELAY).
PolitenessTicks == 10

\* time.time() when the program starts: later than 0.0, the default of
\* domain_last_access, by at least the rate limit.
StartTime == domain_rate_limit

None == "none"

NoItem == [priority |-> -1, url |-> <<0, 0>>]

VARIABLES
    queue,               \* UniqueURLQueue.queue: the heap of asyncio.PriorityQueue
    unfinished_tasks,    \* asyncio.Queue._unfinished_tasks of that queue
    url_set,             \* UniqueURLQueue.url_set
    domain_counts,       \* UniqueURLQueue.domain_counts
    domain_last_access,  \* UniqueURLQueue.domain_last_access
    current_size,        \* UniqueURLQueue.current_size
    lockHolder,          \* UniqueURLQueue.domain_locks: holder of each lock
    lockWaiters,         \* UniqueURLQueue.domain_locks: FIFO waiters of each lock
    visited_urls,        \* CrawlerState.visited_urls
    total_urls_queued,   \* CrawlerState.total_urls_queued
    pc,                  \* position of each worker
    item,                \* local variable item of get / worker
    current_time,        \* local variable current_time of get
    wake,                \* end of the asyncio.sleep a worker is in
    deadline,            \* end of the wait_for around the running get
    now,                 \* wall clock
    admit_count,         \* history: how often put returned True for a URL
    admit_priority,      \* history: the priority a URL was admitted with
    fifo,                \* history: the URLs in the frontier, in admission order
    return_count,        \* history: how often get returned a URL
    last_return,         \* history: time of the last return of get per domain
    put_result,          \* history: the return statement the last put reached
    links_put,           \* links that the running fetch of a worker has put
    redirect_chains,     \* RedirectTracker.redirect_chains (<<>>: no entry)
    redirect_results,    \* history: what add_redirect returned, per origin
    pending_applications,   \* CheckpointManager.pending_applications
    last_checkpoint_time,   \* CheckpointManager.last_checkpoint_time
    checkpoint_clock,       \* time.time() as the checkpoint manager reads it
    checkpoint_call,        \* history: number, kind and result of the last call
    domain_visit_counts,    \* CrawlerState.domain_visit_counts
    total_urls_visited,     \* CrawlerState.total_urls_visited
    fetched,                \* history: the URLs whose page was fetched
    fetch_task,             \* the task that fetch_url is working on
    fetch_links,            \* links of its page that are still to be put
    crawler_running,        \* CrawlerState.crawler_running
    main_pc,                \* position of main: "loop", "leaving", "done"
    monitor_pc,             \* position of monitor_progress: "loop", "done"
    stop_calls,             \* history: completed calls of stop_crawler
    empty_seen,             \* history: consecutive empty observations, per task
    ended_by_empty,         \* history: who ended the crawl for an empty queue
    task_depth,             \* depth of the task at the tip of a branch
    levels_beyond,          \* history: expansions of the branch at depth <= 0
    last_fetch,             \* history: the task of the last fetch and its links
    handler,                \* the handler installed for SIGINT and SIGTERM
    run_pc,                 \* where main() is, or how the process ended
    force_exit_event,       \* main._force_exit_event
    timers,                 \* time left on each started threading.Timer
    flag_shutdown_requested,\* shutdown._shutdown_requested
    shutdown_requested,     \* shutdown_controller.shutdown_requested
    signals,                \* history: signals delivered to the process
    since_signal,           \* history: time since the first signal
    site_pc,                \* SpecSite: "start", "seeded" or "fetched"
    site_queue,             \* SpecSite: tasks in the frontier
    site_url_set,           \* SpecSite: UniqueURLQueue.url_set
    site_visited,           \* SpecSite: state_manager.visited_urls
    site_links,             \* history: the links on the seed page
    url_query,              \* SpecNormalize: query of the URL given
    norm_pc,                \* SpecNormalize: "input" or "done"
    normalized,             \* query of normalize_url(url)
    renormalized,           \* query of normalize_url(normalize_url(url))
    wk_pc,                  \* SpecWorker: where each worker of the pool is
    wk_task,                \* the url a worker has dequeued and is processing
    wk_queue,               \* SpecWorker: the URLs in the frontier
    wk_put,                 \* history: the URLs ever put
    active_tasks,           \* shutdown_controller.active_tasks
    wk_running,             \* SpecWorker: state_manager.crawler_running
    wk_shutdown,            \* SpecWorker: shutdown_controller.shutdown_requested
    wk_limit,               \* SpecWorker: counters['queued'] >= MAX_TOTAL_URLS
    errors,                 \* local variable errors of each worker
    consecutive_timeouts,   \* local variable consecutive_timeouts of each worker
    wk_done,                \* history: task_done calls made for each URL
    wk_last,                \* history: how the last task of each worker ended
    wk_exit,                \* history: what ended the loop of each worker
    evaluated_applications, \* CheckpointManager.evaluated_applications
    checkpoint_writes,      \* history: the file writes of the checkpoint manager
    crit_chains,            \* SpecCritical: redirect_tracker.redirect_chains
    crit_frontier,          \* SpecCritical: the URLs in the frontier
    crit_visited,           \* SpecCritical: url_set and visited set (URLs ever admitted)
    crit_origin,            \* the URL of the task being fetched, or NoUrl
    crit_submitted,         \* history: the critical links handed to put, by task
    domain_rate_limits,     \* fetcher: politeness delay of a domain, in ms
    domain_fetch_counts,    \* fetcher: fetches started for a domain
    rate_last,              \* history: the last fetch, its outcome and its sleep
    stop_pc,                \* SpecStop: where a worker is
    stop_queue,             \* SpecStop: tasks in the frontier
    stop_running,           \* state_manager.crawler_running
    stop_shutdown,          \* shutdown_controller.shutdown_requested
    stop_after,             \* history: the worker's task was dequeued after a stop
    stop_requests,          \* history: HTTP requests started
    store_heap,             \* SpecStore: entries of the inner priority queue
    store_submitted,        \* history: the priority a URL was put with
    status_url_set,         \* SpecStatus: UniqueURLQueue.url_set
    status_visited,         \* SpecStatus: state_manager.visited_urls
    status_heap,            \* SpecStatus: URLs of the tasks in the frontier
    status_counters,        \* SpecStatus: visited counter and domain counter
    status_candidates,      \* SpecStatus: URLs of the application pages
    status_fetches,         \* history: requests made for a URL
    status_non200,          \* history: URLs that got a status other than 200
    trail_log,              \* history: the fetches, their response URL and whether the page was counted
    eval_found,             \* SpecEval: pages in state_manager.found_applications
    eval_pending,           \* SpecEval: checkpoint_manager.pending_applications
    eval_evaluated,         \* SpecEval: checkpoint_manager.evaluated_applications
    eval_holding,           \* SpecEval: the batch each caller is evaluating
    eval_handed,            \* SpecEval: every page of every batch handed out
    eval_phase,             \* SpecEval: loop, drained, final, done
    eval_results,           \* SpecEval: evaluated_results at the end of main
    lock_holder,            \* SpecLock: the task that has each lock
    lock_waiters,           \* SpecLock: the tasks queued for each lock
    lock_wants,             \* SpecLock: the lock each task is queued for
    lock_call,              \* SpecLock: the call each task is in
    lock_pc                 \* SpecLock: the next step of that call

frontierVars == <<queue, unfinished_tasks, url_set, domain_counts,
                  domain_last_access, current_size, lockHolder, lockWaiters,
                  visited_urls, total_urls_queued, pc, item, current_time,
                  wake, deadline, now, admit_count,
                   admit_priority, fifo, return_count,
                  last_return, put_result, links_put>>

redirectVars == <<redirect_chains, redirect_results>>

checkpointVars == <<pending_applications, last_checkpoint_time,
                    checkpoint_clock, checkpoint_call>>

fetchVars == <<domain_visit_counts, total_urls_visited, fetched, fetch_task,
               fetch_links>>

controlVars == <<crawler_running, main_pc, monitor_pc, stop_calls,
                 empty_seen, ended_by_empty>>

depthVars == <<task_depth, levels_beyond, last_fetch>>

shutdownVars == <<handler, run_pc, force_exit_event, timers,
                  flag_shutdown_requested, shutdown_requested, signals,
                  since_signal>>

siteVars == <<site_pc, site_queue, site_url_set, site_visited, site_links>>

normalizeVars == <<url_query, norm_pc, normalized, renormalized>>

workerVars == <<wk_pc, wk_task, wk_queue, wk_put, active_tasks, wk_running,
                wk_shutdown, wk_limit, errors, consecutive_timeouts,
                wk_done, wk_last, wk_exit>>

persistVars == <<evaluated_applications, checkpoint_writes>>

criticalVars == <<crit_chains, crit_frontier, crit_visited, crit_origin, crit_submitted>>

rateVars == <<domain_rate_limits, domain_fetch_counts, rate_last>>

stopVars == <<stop_pc, stop_queue, stop_running, stop_shutdown, stop_after, stop_requests>>

storeVars == <<store_heap, store_submitted>>

statusVars == <<status_url_set, status_visited, status_heap, status_counters, status_candidates, status_fetches, status_non200>>

trailVars == <<trail_log>>

evalVars == <<eval_found, eval_pending, eval_evaluated, eval_holding, eval_handed, eval_phase, eval_results>>

lockVars == <<lock_holder, lock_waiters, lock_wants, lock_call, lock_pc>>

vars == <<frontierVars, redirectVars, checkpointVars, fetchVars,
          controlVars, depthVars, shutdownVars, siteVars, normalizeVars,
          workerVars,
          persistVars,
          criticalVars,
          rateVars,
          stopVars,
          storeVars,
          statusVars,
          trailVars,
          evalVars,
          lockVars>>

\* What the actions of one component leave alone.
nonFrontierVars == <<redirectVars, checkpointVars, fetchVars, controlVars,
    depthVars, shutdownVars, siteVars,
    normalizeVars,
    workerVars,
    persistVars,
    criticalVars,
    rateVars,
    stopVars,
    storeVars,
    statusVars,
    trailVars,
    evalVars,
    lockVars>>

nonRedirectVars == <<frontierVars, checkpointVars, fetchVars, controlVars,
    depthVars, shutdownVars, siteVars,
    normalizeVars,
    workerVars,
    persistVars,
    criticalVars,
    rateVars,
    stopVars,
    storeVars,
    statusVars,
    trailVars,
    evalVars,
    lockVars>>

nonCheckpointVars == <<frontierVars, redirectVars, fetchVars, controlVars,
    depthVars, shutdownVars, siteVars,
    normalizeVars,
    workerVars,
    persistVars,
    criticalVars,
    rateVars,
    stopVars,
    storeVars,
    statusVars,
    trailVars,
    evalVars,
    lockVars>>

nonCrawlVars == <<redirectVars, checkpointVars, controlVars,
    depthVars, shutdownVars, siteVars,
    normalizeVars,
    workerVars,
    persistVars,
    criticalVars,
    rateVars,
    stopVars,
    storeVars,
    statusVars,
    trailVars,
    evalVars,
    lockVars>>

nonControlVars == <<frontierVars, redirectVars, checkpointVars, fetchVars,
    depthVars, shutdownVars, siteVars,
    normalizeVars,
    workerVars,
    persistVars,
    criticalVars,
    rateVars,
    stopVars,
    storeVars,
    statusVars,
    trailVars,
    evalVars,
    lockVars>>

nonDepthVars == <<frontierVars, redirectVars, checkpointVars, fetchVars,
    controlVars, shutdownVars, siteVars,
    normalizeVars,
    workerVars,
    persistVars,
    criticalVars,
    rateVars,
    stopVars,
    storeVars,
    statusVars,
    trailVars,
    evalVars,
    lockVars>>

nonShutdownVars == <<frontierVars, redirectVars, checkpointVars, fetchVars,
    controlVars, depthVars, siteVars,
    normalizeVars,
    workerVars,
    persistVars,
    criticalVars,
    rateVars,
    stopVars,
    storeVars,
    statusVars,
    trailVars,
    evalVars,
    lockVars>>

nonSiteVars == <<frontierVars, redirectVars, checkpointVars, fetchVars,
    controlVars, depthVars, shutdownVars, normalizeVars,
    workerVars,
    persistVars,
    criticalVars,
    rateVars,
    stopVars,
    storeVars,
    statusVars,
    trailVars,
    evalVars,
    lockVars>>

nonNormalizeVars == <<frontierVars, redirectVars, checkpointVars, fetchVars,
    controlVars, depthVars, shutdownVars, siteVars,
    workerVars,
    persistVars,
    criticalVars,
    rateVars,
    stopVars,
    storeVars,
    statusVars,
    trailVars,
    evalVars,
    lockVars>>

nonWorkerVars == <<frontierVars, redirectVars, checkpointVars, fetchVars,
    controlVars, depthVars, shutdownVars, siteVars,
    normalizeVars,
    persistVars,
    criticalVars,
    rateVars,
    stopVars,
    storeVars,
    statusVars,
    trailVars,
    evalVars,
    lockVars>>

nonPersistVars == <<frontierVars, redirectVars, checkpointVars, fetchVars,
    controlVars, depthVars, shutdownVars, siteVars,
    normalizeVars, workerVars,
    criticalVars,
    rateVars,
    stopVars,
    storeVars,
    statusVars,
    trailVars,
    evalVars,
    lockVars>>

nonCriticalVars == <<frontierVars, redirectVars, checkpointVars, fetchVars,
    controlVars, depthVars, shutdownVars, siteVars,
    normalizeVars, workerVars, persistVars,
    rateVars,
    stopVars,
    storeVars,
    statusVars,
    trailVars,
    evalVars,
    lockVars>>

nonRateVars == <<frontierVars, redirectVars, checkpointVars, fetchVars,
    controlVars, depthVars, shutdownVars, siteVars,
    normalizeVars, workerVars, persistVars, criticalVars,
    stopVars,
    storeVars,
    statusVars,
    trailVars,
    evalVars,
    lockVars>>

nonStopVars == <<frontierVars, redirectVars, checkpointVars, fetchVars,
    controlVars, depthVars, shutdownVars, siteVars,
    normalizeVars, workerVars, persistVars, criticalVars,
    rateVars,
    storeVars,
    statusVars,
    trailVars,
    evalVars,
    lockVars>>

nonStoreVars == <<frontierVars, redirectVars, checkpointVars, fetchVars,
    controlVars, depthVars, shutdownVars, siteVars,
    normalizeVars, workerVars, persistVars, criticalVars,
    rateVars, stopVars,
    statusVars,
    trailVars,
    evalVars,
    lockVars>>

nonStatusVars == <<frontierVars, redirectVars, checkpointVars, fetchVars,
    controlVars, depthVars, shutdownVars, siteVars,
    normalizeVars, workerVars, persistVars, criticalVars,
    rateVars, stopVars, storeVars,
    trailVars,
    evalVars,
    lockVars>>

nonTrailVars == <<frontierVars, redirectVars, checkpointVars, fetchVars,
    controlVars, depthVars, shutdownVars, siteVars,
    normalizeVars, workerVars, persistVars, criticalVars,
    rateVars, stopVars, storeVars, statusVars,
    evalVars,
    lockVars>>

nonEvalVars == <<frontierVars, redirectVars, checkpointVars, fetchVars,
    controlVars, depthVars, shutdownVars, siteVars,
    normalizeVars, workerVars, persistVars, criticalVars,
    rateVars, stopVars, storeVars, statusVars,
    trailVars,
    lockVars>>

nonLockVars == <<frontierVars, redirectVars, checkpointVars, fetchVars,
    controlVars, depthVars, shutdownVars, siteVars,
    normalizeVars, workerVars, persistVars, criticalVars,
    rateVars, stopVars, storeVars, statusVars,
    trailVars, evalVars>>

\* ------------------------------------------------------------------------
\* Helpers
\* ------------------------------------------------------------------------

\* urlparse(url).netloc.lower()
Netloc(u) == u[1]

Max(a, b) == IF a >= b THEN a ELSE b

Min(a, b) == IF a <= b THEN a ELSE b

\* Sequence q without the entries equal to x.
Without(q, x) == SelectSeq(q, LAMBDA y : y # x)

\* Python's < on two URL strings.
UrlLess(u, v) == u[1] < v[1] \/ (u[1] = v[1] /\ u[2] < v[2])

\* Position of a URL of the frontier in the order of admission.
FifoIndex(u) == CHOOSE i \in DOMAIN fifo : fifo[i] = u

\* A heap whose entries carry an insertion counter after the priority: ties
\* go to the entry admitted first.
ItemLess_InsertionOrder(i, j) ==
    \/ i.priority < j.priority
    \/ (i.priority = j.priority /\ FifoIndex(i.url) < FifoIndex(j.url))

\* Python's < on two queue entries (priority, url, depth, university): the
\* priority decides, then the URL.  Two entries of the heap never carry the
\* same URL, so depth and university are never compared.
ItemLess(i, j) ==
    \/ i.priority < j.priority
    \/ (i.priority = j.priority /\ UrlLess(i.url, j.url))

\* heapq.heappop: the least entry of the heap.
HeapMin(q) == CHOOSE i \in q : \A j \in q \ {i} : ItemLess(i, j)

\* The part of the state that get works on.
Cur == [queue |-> queue, unfinished |-> unfinished_tasks,
        counts |-> domain_counts, last |-> domain_last_access,
        size |-> current_size, holder |-> lockHolder,
        waiters |-> lockWaiters, pc |-> pc, item |-> item,
        ct |-> current_time, wake |-> wake, fifo |-> fifo,
        rc |-> return_count, lr |-> last_return]

Install(s) ==
    /\ queue' = s.queue
    /\ unfinished_tasks' = s.unfinished
    /\ domain_counts' = s.counts
    /\ domain_last_access' = s.last
    /\ current_size' = s.size
    /\ lockHolder' = s.holder
    /\ lockWaiters' = s.waiters
    /\ pc' = s.pc
    /\ item' = s.item
    /\ current_time' = s.ct
    /\ wake' = s.wake
    /\ fifo' = s.fifo
    /\ return_count' = s.rc
    /\ last_return' = s.lr

\* ------------------------------------------------------------------------
\* UniqueURLQueue.get, from one suspension point to the next
\* ------------------------------------------------------------------------

\* time_since_last < self.domain_rate_limit
TooSoon(ct, last) == ct - last < domain_rate_limit

\* worker, after get has returned: the task is skipped when the queued
\* counter has reached the limit; otherwise fetch_url starts with the
\* politeness sleep.
Process(w, s) ==
    IF total_urls_queued >= MAX_TOTAL_URLS
    THEN [s EXCEPT !.pc[w] = "skipping"]
    ELSE [s EXCEPT !.pc[w] = "fetching", !.wake[w] = now + PolitenessTicks]

\* A push-back that goes through the counters as an admission does.
RateCheck_CountedRequeue(w, s) ==
    LET it == s.item[w]
        d  == Netloc(it.url)
    IN  IF TooSoon(s.ct[w], s.last[d])
        THEN [s EXCEPT !.queue = @ \cup {[priority |-> it.priority + 1,
                                          url |-> it.url]},
                       !.unfinished = @ + 1,
                       !.counts[d] = @ + 1,
                       !.size = @ + 1,
                       !.item[w] = NoItem,
                       !.wake[w] = now + SleepTicks,
                       !.pc[w] = "sleep"]
        ELSE Process(w, [s EXCEPT !.last[d] = s.ct[w],
                                  !.counts[d] = Max(0, @ - 1),
                                  !.size = @ - 1,
                                  !.holder[d] = None,
                                  !.fifo = Without(@, it.url),
                                  !.rc[it.url] = @ + 1,
                                  !.lr[d] = now])

\* The body of "async with self.domain_locks[domain]", entered by worker w
\* holding the lock: push back and sleep, or return the item.
RateCheck(w, s) ==
    LET it == s.item[w]
        d  == Netloc(it.url)
    IN  IF TooSoon(s.ct[w], s.last[d])
        THEN [s EXCEPT !.queue = @ \cup {[priority |-> it.priority + 1,
                                          url |-> it.url]},
                       !.unfinished = @ + 1,
                       !.item[w] = NoItem,
                       !.wake[w] = now + SleepTicks,
                       !.pc[w] = "sleep"]
        ELSE Process(w, [s EXCEPT !.last[d] = s.ct[w],
                                  !.counts[d] = Max(0, @ - 1),
                                  !.size = @ - 1,
                                  !.holder[d] = None,
                                  !.fifo = Without(@, it.url),
                                  !.rc[it.url] = @ + 1,
                                  !.lr[d] = now])

\* "async with self.domain_locks[domain]": asyncio.Lock.acquire takes a free
\* lock that nobody waits for at once, and queues up behind the others
\* otherwise.
DomainLock(w, s) ==
    LET d == Netloc(s.item[w].url)
    IN  IF s.holder[d] = None /\ s.waiters[d] = <<>>
        THEN RateCheck(w, [s EXCEPT !.holder[d] = w])
        ELSE [s EXCEPT !.waiters[d] = Append(@, w), !.pc[w] = "wait_lock"]

\* The top of the while loop: Queue.get waits on an empty heap, else pops
\* the least entry; then the clock is read and the domain lock requested.
LoopTop(w, s) ==
    IF s.queue = {}
    THEN [s EXCEPT !.pc[w] = "wait_item"]
    ELSE LET it == HeapMin(s.queue)
         IN  DomainLock(w, [s EXCEPT !.queue = @ \ {it},
                                     !.item[w] = it,
                                     !.ct[w] = now])

\* ------------------------------------------------------------------------
\* UniqueURLQueue.put
\* ------------------------------------------------------------------------

\* The limit check with > in place of >=.
should_enforce_url_limit_Above(limit) == total_urls_queued > limit

\* CrawlerState.should_enforce_url_limit
should_enforce_url_limit(limit) == total_urls_queued >= limit

\* A duplicate check against the entries of the heap instead of url_set.
AlreadyQueued_HeapOnly(u) == \E it \in queue : it.url = u

\* "if url in self.url_set"
AlreadyQueued(u) == u \in url_set

\* The domain check with > in place of >=.
DomainLimitReached_Above(d) == domain_counts[d] > max_per_domain

\* "if self.domain_counts[domain] >= self.max_per_domain"
DomainLimitReached(d) == domain_counts[d] >= max_per_domain

\* The size check without the exemption of priorities 3 and below.
QueueFullRejects_AnyPriority(p) == current_size >= max_memory_size

\* A frontier without the size check.
QueueFullRejects_Never(p) == FALSE

\* "if self.current_size >= self.max_memory_size: if priority > 3"
QueueFullRejects(p) == current_size >= max_memory_size /\ p > 3

\* The return statement that a call put((p, u, ...)) reaches in the current
\* state, in the order of the checks of put.
put_outcome(u, p) ==
    IF should_enforce_url_limit(MAX_TOTAL_URLS) THEN "limit"
    ELSE IF AlreadyQueued(u) THEN "duplicate"
    ELSE IF DomainLimitReached(Netloc(u)) THEN "domain_cap"
    ELSE IF QueueFullRejects(p) THEN "full"
    ELSE "admitted"

\* The value that put((p, u, ...)) returns in the current state.
put_returns(u, p) == put_outcome(u, p) = "admitted"

\* put never suspends: every lock it takes is free (no holder of self.lock
\* or of a CrawlerState lock ever suspends) and the inner queue is unbounded,
\* so the whole call is one step.  The URL enters url_set before the domain
\* and size checks.  The priority adjustment for deep URLs changes a local
\* variable after the item was unpacked and has no effect on the entry that
\* is queued.
put(u, p) ==
    LET d == Netloc(u)
        o == put_outcome(u, p)
    IN  /\ put_result' = o
        /\ url_set' = IF o \in {"limit", "duplicate"}
                      THEN url_set
                      ELSE url_set \cup {u}
        /\ IF o = "admitted"
           THEN /\ visited_urls' = visited_urls \cup {u}
                /\ total_urls_queued' = total_urls_queued + 1
                /\ domain_counts' = [domain_counts EXCEPT ![d] = @ + 1]
                /\ queue' = queue \cup {[priority |-> p, url |-> u]}
                /\ unfinished_tasks' = unfinished_tasks + 1
                /\ current_size' = current_size + 1
                /\ admit_count' = [admit_count EXCEPT ![u] = @ + 1]
                /\ admit_priority' = [admit_priority EXCEPT ![u] = p]
                /\ fifo' = Append(fifo, u)
           ELSE UNCHANGED <<queue, unfinished_tasks, domain_counts,
                            current_size, visited_urls, total_urls_queued,
                            admit_count, admit_priority, fifo>>

\* ------------------------------------------------------------------------
\* Actions
\* ------------------------------------------------------------------------

\* prepare_url_queue: the seeds are put with priority 0 before any worker
\* is started.
SeedPut(u) ==
    /\ \A w \in Workers : pc[w] = "idle"
    /\ now = StartTime
    /\ put(u, 0)
    /\ UNCHANGED <<domain_last_access, lockHolder, lockWaiters, pc, item,
                   current_time, wake, deadline, now, return_count,
                   last_return, links_put, nonFrontierVars>>

\* fetch_url / queue_links: a worker that processes a page puts a link, a
\* critical one with priority 0 or an ordinary one.
FetchPut(w, u, p) ==
    /\ pc[w] = "fetching"
    /\ wake[w] <= now
    /\ links_put[w] < MaxLinksPerPage
    /\ links_put' = [links_put EXCEPT ![w] = @ + 1]
    /\ put(u, p)
    /\ UNCHANGED <<domain_last_access, lockHolder, lockWaiters, pc, item,
                   current_time, wake, deadline, now, return_count,
                   last_return, nonFrontierVars>>

\* start_workers creates the workers 0.05 s, half a tick, apart: worker
\* number i (from 0) enters its loop i * 0.05 s after the first.
StartOffset(w) ==
    LET i == CHOOSE k \in DOMAIN WorkerList : WorkerList[k] = w
    IN  (i - 1) \div 2

\* worker: the loop is entered and get is called under wait_for.
StartGet(w) ==
    /\ pc[w] = "idle"
    /\ now >= StartTime + StartOffset(w)
    /\ deadline' = [deadline EXCEPT ![w] = now + GetTimeoutTicks]
    /\ Install(LoopTop(w, Cur))
    /\ UNCHANGED <<url_set, visited_urls, total_urls_queued, now,
                   admit_count,
                   admit_priority, put_result, links_put, nonFrontierVars>>

\* Queue.get resumes when the heap has an entry.
ItemAvailable(w) ==
    /\ pc[w] = "wait_item"
    /\ queue # {}
    /\ Install(LoopTop(w, Cur))
    /\ UNCHANGED <<url_set, visited_urls, total_urls_queued, deadline, now,
                   admit_count,
                   admit_priority, put_result, links_put, nonFrontierVars>>

\* Lock.acquire resumes: the lock is free and w is its first waiter.
LockGranted(w) ==
    /\ pc[w] = "wait_lock"
    /\ LET d == Netloc(item[w].url)
       IN  /\ lockHolder[d] = None
           /\ lockWaiters[d] # <<>>
           /\ Head(lockWaiters[d]) = w
           /\ Install(RateCheck(w, [Cur EXCEPT !.holder[d] = w,
                                               !.waiters[d] = Tail(@)]))
    /\ UNCHANGED <<url_set, visited_urls, total_urls_queued, deadline, now,
                   admit_count,
                   admit_priority, put_result, links_put, nonFrontierVars>>

\* The sleep after a pacing requeue ends: "continue" leaves the async with
\* block, which releases the lock, and the loop starts over.
SleepWake(w) ==
    /\ pc[w] = "sleep"
    /\ wake[w] <= now
    /\ LET d == CHOOSE e \in Domains : lockHolder[e] = w
       IN  Install(LoopTop(w, [Cur EXCEPT !.holder[d] = None]))
    /\ UNCHANGED <<url_set, visited_urls, total_urls_queued, deadline, now,
                   admit_count,
                   admit_priority, put_result, links_put, nonFrontierVars>>

\* What cancelling get leaves behind, depending on where get was suspended:
\* a waiter for the lock is taken off the lock's queue and its local item is
\* gone with the coroutine; a sleeper leaves the async with block and
\* releases the lock.
Cancelled(w, s) ==
    IF s.pc[w] = "wait_lock"
    THEN LET d == Netloc(s.item[w].url)
         IN  [s EXCEPT !.waiters[d] = Without(@, w),
                       !.fifo = Without(@, s.item[w].url),
                       !.item[w] = NoItem]
    ELSE IF s.pc[w] = "sleep"
    THEN LET d == CHOOSE e \in Domains : s.holder[e] = w
         IN  [s EXCEPT !.holder[d] = None]
    ELSE s

\* worker: wait_for cancels get after 1.0 s; the worker catches TimeoutError,
\* continues its loop and calls get again.
GetTimeout(w) ==
    /\ pc[w] \in {"wait_item", "wait_lock", "sleep"}
    /\ deadline[w] <= now
    /\ deadline' = [deadline EXCEPT ![w] = now + GetTimeoutTicks]
    /\ Install(LoopTop(w, Cancelled(w, Cur)))
    /\ UNCHANGED <<url_set, visited_urls, total_urls_queued, now,
                   admit_count,
                   admit_priority, put_result, links_put, nonFrontierVars>>

\* worker: "continue" on the URL limit runs the finally block, which calls
\* task_done, and the loop calls get again.
SkipTask(w) ==
    /\ pc[w] = "skipping"
    /\ deadline' = [deadline EXCEPT ![w] = now + GetTimeoutTicks]
    /\ Install(LoopTop(w, [Cur EXCEPT !.unfinished = @ - 1,
                                      !.item[w] = NoItem]))
    /\ UNCHANGED <<url_set, visited_urls, total_urls_queued, now,
                   admit_count,
                   admit_priority, put_result, links_put, nonFrontierVars>>

\* worker: fetch_url ends, at any time after its politeness sleep; task_done
\* is called in the finally block, and the loop calls get again.
FetchDone(w) ==
    /\ pc[w] = "fetching"
    /\ wake[w] <= now
    /\ deadline' = [deadline EXCEPT ![w] = now + GetTimeoutTicks]
    /\ links_put' = [links_put EXCEPT ![w] = 0]
    /\ Install(LoopTop(w, [Cur EXCEPT !.unfinished = @ - 1,
                                      !.item[w] = NoItem]))
    /\ UNCHANGED <<url_set, visited_urls, total_urls_queued, now,
                   admit_count,
                   admit_priority, put_result, nonFrontierVars>>

\* A worker that the event loop can run now.
Runnable(w) ==
    \/ pc[w] = "idle" /\ now >= StartTime + StartOffset(w)
    \/ pc[w] = "skipping"
    \/ pc[w] = "wait_item" /\ queue # {}
    \/ /\ pc[w] = "wait_lock"
       /\ lockHolder[Netloc(item[w].url)] = None
       /\ Head(lockWaiters[Netloc(item[w].url)]) = w
    \/ pc[w] = "sleep" /\ wake[w] <= now
    \/ pc[w] \in {"wait_item", "wait_lock", "sleep"} /\ deadline[w] <= now

\* Time passes when no coroutine is ready to run.
Tick(horizon) ==
    /\ now < horizon
    /\ \A w \in Workers : ~Runnable(w)
    /\ now' = now + 1
    /\ UNCHANGED <<queue, unfinished_tasks, url_set, domain_counts,
                   domain_last_access, current_size, lockHolder, lockWaiters,
                   visited_urls, total_urls_queued, pc, item, current_time,
                   wake, deadline, admit_count,
                   admit_priority, fifo, return_count,
                   last_return, put_result, links_put, nonFrontierVars>>

\* ------------------------------------------------------------------------
\* RedirectTracker.  Its state is its own: no frontier method reads or writes
\* it, so its calls are explored apart from the frontier's, in SpecRedirect.
\* ------------------------------------------------------------------------

\* list.count(url)
Count(chain, url) == Cardinality({i \in DOMAIN chain : chain[i] = url})

\* A loop check that counts the occurrences before the append.
LoopDetected_BeforeAppend(chain, url) == Count(chain, url) > 2

\* "if self.redirect_chains[original_url].count(redirected_url) > 1", on
\* the chain that already holds the new hop.
LoopDetected(chain, url) == Count(chain, url) > 1

\* "if len(self.redirect_chains[original_url]) > self.max_redirects", on
\* the chain that already holds the new hop.
ChainTooLong(chain) == Len(chain) > max_redirects

\* The chain of original_url after the append; a missing entry is created
\* as [original_url] first.
ChainAfterAppend(o, r) ==
    Append(IF redirect_chains[o] = <<>> THEN <<o>> ELSE redirect_chains[o], r)

\* The value that add_redirect returns, from the chain after the append.
add_redirect_returns(chain, url) ==
    IF LoopDetected(chain, url) THEN FALSE
    ELSE IF ChainTooLong(chain) THEN FALSE
    ELSE TRUE

RECURSIVE HopsMade(_)
\* Number of add_redirect calls recorded for the origins in S.
HopsMade(S) ==
    IF S = {} THEN 0
    ELSE LET o == CHOOSE x \in S : TRUE
         IN  Len(redirect_results[o]) + HopsMade(S \ {o})

\* RedirectTracker.start_tracking
start_tracking(o) ==
    /\ redirect_chains' = [redirect_chains EXCEPT ![o] = <<o>>]
    /\ redirect_results' = [redirect_results EXCEPT ![o] = <<>>]
    /\ UNCHANGED nonRedirectVars

\* RedirectTracker.add_redirect
add_redirect(o, r) ==
    /\ HopsMade(Origins) < MaxHops
    /\ LET chain == ChainAfterAppend(o, r)
       IN  /\ redirect_chains' = [redirect_chains EXCEPT ![o] = chain]
           /\ redirect_results' =
                  [redirect_results EXCEPT
                      ![o] = Append(@, add_redirect_returns(chain, r))]
    /\ UNCHANGED nonRedirectVars

\* ------------------------------------------------------------------------
\* fetch_url and queue_links, as run by a single worker whose get calls are
\* far enough apart that no pacing delay is in effect: get returns the least
\* entry of the heap at once.  The redirect tracker is left out: fetch_url
\* starts a fresh chain for every task, on which add_redirect accepts a final
\* URL that differs from the task's.
\* ------------------------------------------------------------------------

\* The links a page can carry: each a URL with the priority it is put with,
\* 0 for a critical application link and 4 for an ordinary link.
PageLinks ==
    {L \in SUBSET [priority : PutPriorities, url : Urls] :
        /\ Cardinality(L) <= MaxPageLinks
        /\ \A a, b \in L : a.url = b.url => a = b}

\* queue_links: "if domain in domain_counts and domain_counts[domain] >=
\* max_urls_per_domain: continue"
DomainVisitsExhausted(counts, d) == counts[d] >= MAX_URLS_PER_DOMAIN

\* The links of a page that fetch_url hands to put: a critical link
\* (find_critical_application_links) unless it is visited, an ordinary link
\* (queue_links) unless its domain has used up its visits or it is visited.
LinksToPut(L, counts) ==
    {l \in L :
        /\ l.url \notin visited_urls
        /\ l.priority = 0 \/ ~DomainVisitsExhausted(counts, Netloc(l.url))}

\* worker and fetch_url up to the puts: get returns the least entry; the
\* worker skips it at the URL limit; else the page is requested.  A failed
\* request (ok = FALSE) ends the fetch and has no final URL and no links
\* to speak of.  A page that came back from final
\* URL f is counted for the domain of the task URL, and unless the URL limit
\* is reached its links are filtered for put.
FetchTaskStart(f, ok, L) ==
    /\ fetch_task = NoItem
    /\ queue # {}
    /\ LET it == HeapMin(queue)
           d  == Netloc(it.url)
           skip == total_urls_queued >= MAX_TOTAL_URLS
           counts == [domain_visit_counts EXCEPT ![d] = @ + 1]
       IN  /\ (skip \/ ~ok) => (f = it.url /\ L = {})
           /\ queue' = queue \ {it}
           /\ domain_last_access' = [domain_last_access EXCEPT ![d] = now]
           /\ domain_counts' = [domain_counts EXCEPT ![d] = Max(0, @ - 1)]
           /\ current_size' = current_size - 1
           /\ fifo' = Without(fifo, it.url)
           /\ return_count' = [return_count EXCEPT ![it.url] = @ + 1]
           /\ last_return' = [last_return EXCEPT ![d] = now]
           /\ IF skip \/ ~ok
              THEN /\ unfinished_tasks' = unfinished_tasks - 1
                   /\ UNCHANGED fetchVars
              ELSE /\ fetch_task' = it
                   /\ fetched' = fetched \cup {it.url, f}
                   /\ total_urls_visited' = total_urls_visited + 1
                   /\ domain_visit_counts' = counts
                   /\ fetch_links' = LinksToPut(L, counts)
                   /\ UNCHANGED unfinished_tasks
    /\ UNCHANGED <<url_set, lockHolder, lockWaiters, visited_urls,
                   total_urls_queued, pc, item, current_time, wake, deadline,
                   now, admit_count,
                   admit_priority, put_result, links_put, nonCrawlVars>>

\* fetch_url / queue_links: the next link is put, critical links first and
\* then the others by priority.
FetchLinkPut(l) ==
    /\ fetch_task # NoItem
    /\ l \in fetch_links
    /\ \A k \in fetch_links : l.priority <= k.priority
    /\ put(l.url, l.priority)
    /\ fetch_links' = fetch_links \ {l}
    /\ UNCHANGED <<domain_last_access, lockHolder, lockWaiters, pc, item,
                   current_time, wake, deadline, now, return_count,
                   last_return, links_put, domain_visit_counts,
                   total_urls_visited, fetched, fetch_task, nonCrawlVars>>

\* worker: fetch_url has returned and the finally block calls task_done.
FetchTaskDone ==
    /\ fetch_task # NoItem
    /\ fetch_links = {}
    /\ fetch_task' = NoItem
    /\ unfinished_tasks' = unfinished_tasks - 1
    /\ UNCHANGED <<queue, url_set, domain_counts, domain_last_access,
                   current_size, lockHolder, lockWaiters, visited_urls,
                   total_urls_queued, pc, item, current_time, wake, deadline,
                   now, admit_count,
                   admit_priority, fifo, return_count, last_return,
                   put_result, links_put, domain_visit_counts,
                   total_urls_visited, fetched, fetch_links, nonCrawlVars>>

\* prepare_url_queue, which runs before the worker starts.
FetchSeedPut(u) ==
    /\ total_urls_visited = 0
    /\ fetch_task = NoItem
    /\ \A v \in Urls : return_count[v] = 0
    /\ SeedPut(u)

\* ------------------------------------------------------------------------
\* The running flag, the main loop and monitor_progress
\* ------------------------------------------------------------------------

\* A stop that flips the flag.
StoppedFlag_Toggled == ~crawler_running

\* CrawlerState.stop_crawler: "self.crawler_running = False"
StoppedFlag == FALSE

\* CrawlerState.is_crawler_running
is_crawler_running == crawler_running

\* UniqueURLQueue.empty: asyncio.Queue.empty of the inner queue.
empty == queue = {}

\* CrawlerState.stop_crawler, awaited.
stop_crawler ==
    /\ crawler_running' = StoppedFlag
    /\ stop_calls' = stop_calls + 1

\* main creates the monitor and the workers after prepare_url_queue has put
\* the seeds (Config.SEED_UNIVERSITIES is not empty).
Seeded == url_set # {}

\* One pass of the while loop of main: the loop is left when the flag is
\* down or the queue is empty, the crawler is stopped when the visited
\* counter has reached the limit, and else main sleeps for a second.
MainLoopPass ==
    /\ main_pc = "loop"
    /\ Seeded
    /\ IF ~is_crawler_running
       THEN /\ main_pc' = "leaving"
            /\ UNCHANGED <<crawler_running, stop_calls, empty_seen,
                           ended_by_empty>>
       ELSE IF empty
       THEN /\ main_pc' = "leaving"
            /\ empty_seen' = [empty_seen EXCEPT !["main"] = @ + 1]
            /\ ended_by_empty' = ended_by_empty \cup {"main"}
            /\ UNCHANGED <<crawler_running, stop_calls>>
       ELSE IF total_urls_visited >= MAX_TOTAL_URLS
       THEN /\ stop_crawler
            /\ main_pc' = "leaving"
            /\ empty_seen' = [empty_seen EXCEPT !["main"] = 0]
            /\ UNCHANGED ended_by_empty
       ELSE /\ empty_seen' = [empty_seen EXCEPT !["main"] = 0]
            /\ UNCHANGED <<crawler_running, main_pc, stop_calls,
                           ended_by_empty>>
    /\ UNCHANGED <<monitor_pc, nonControlVars>>

\* main after the loop: the finally block stops the crawler and cancels the
\* workers and the monitor.
MainFinally ==
    /\ main_pc = "leaving"
    /\ stop_crawler
    /\ main_pc' = "done"
    /\ monitor_pc' = "done"
    /\ UNCHANGED <<empty_seen, ended_by_empty, nonControlVars>>

\* One pass of the while loop of monitor_progress, every 5 s: the crawler
\* is stopped when the queue is empty after at least one visit, or when the
\* queued counter has reached the limit.
MonitorPass ==
    /\ monitor_pc = "loop"
    /\ Seeded
    /\ IF ~is_crawler_running
       THEN /\ monitor_pc' = "done"
            /\ UNCHANGED <<crawler_running, stop_calls, empty_seen,
                           ended_by_empty>>
       ELSE IF empty /\ total_urls_visited > 0
       THEN /\ stop_crawler
            /\ monitor_pc' = "done"
            /\ empty_seen' = [empty_seen EXCEPT !["monitor"] = @ + 1]
            /\ ended_by_empty' = ended_by_empty \cup {"monitor"}
       ELSE IF total_urls_queued >= MAX_TOTAL_URLS
       THEN /\ stop_crawler
            /\ monitor_pc' = "done"
            /\ empty_seen' = [empty_seen EXCEPT !["monitor"] = 0]
            /\ UNCHANGED ended_by_empty
       ELSE /\ empty_seen' = [empty_seen EXCEPT !["monitor"] = 0]
            /\ UNCHANGED <<crawler_running, monitor_pc, stop_calls,
                           ended_by_empty>>
    /\ UNCHANGED <<main_pc, nonControlVars>>

\* prepare_url_queue runs before main enters its loop.
ControlSeedPut(u) ==
    /\ main_pc = "loop"
    /\ monitor_pc = "loop"
    /\ empty_seen = [who \in {"main", "monitor"} |-> 0]
    /\ FetchSeedPut(u)

\* worker: "while await state_manager.is_crawler_running()" around get, and
\* the same test at the top of fetch_url.
ControlFetchStart(f, ok, L) ==
    /\ is_crawler_running
    /\ FetchTaskStart(f, ok, L)

\* The worker goes on with its task until main cancels it.
ControlLinkPut(l) ==
    /\ main_pc # "done"
    /\ FetchLinkPut(l)

ControlTaskDone ==
    /\ main_pc # "done"
    /\ FetchTaskDone

\* ------------------------------------------------------------------------
\* Depth management of fetch_url, along the branches of the crawl
\* ------------------------------------------------------------------------

\* "current_depth = depth", and for an admission page at depth 0 or below
\* that is above the extended limit "current_depth = -1".
current_depth(depth, extend_depth) ==
    IF extend_depth /\ depth <= 0 /\ depth > -MAX_ADMISSION_DEPTH
    THEN -1
    ELSE depth

\* fetch_url reaches queue_links: it has not returned at the discovery
\* cutoff for regular pages nor at the extended limit for admission pages.
ExpandsLinks(depth, extend_depth) ==
    IF ~extend_depth /\ depth <= 0 THEN FALSE
    ELSE IF extend_depth /\ depth < 0 /\ depth <= -MAX_ADMISSION_DEPTH
    THEN FALSE
    ELSE TRUE

\* "await queue_links(links, current_depth - 1, university, url_queue)"
LinkDepth(depth, extend_depth) == current_depth(depth, extend_depth) - 1

\* get_link_limit(depth, is_admission_domain), called by queue_links with
\* the depth it gives to the links.
get_link_limit(depth, is_admission_domain) ==
    IF is_admission_domain
    THEN IF depth > 0 THEN 100 ELSE 30
    ELSE IF depth >= MAX_DEPTH - 1 THEN 10
    ELSE IF depth >= MAX_DEPTH - 3 THEN 20
    ELSE 50

\* The link limit of a page of a regular university domain that is not an
\* admission page, for the task's depth: "queue_links(links, current_depth -
\* 1, ...)" and "link_limit = await get_link_limit(depth,
\* is_admission_domain)".
PageLinkLimit(depth) == get_link_limit(LinkDepth(depth, FALSE), FALSE)

\* No page has been fetched yet.
NoFetch == [depth |-> MAX_DEPTH, extend_depth |-> FALSE, fetched |-> FALSE,
            surviving |-> 0, submitted |-> <<>>]

\* queue_links: "filtered_links.append((priority, link, depth, university))"
\* and one put for each of them; the depths of the tuples put, for a page
\* with n links that pass the filter and the limit.
queue_links_depths(depth, n) == [i \in 1..n |-> depth]

\* The cutoff left out: queue_links is reached at every depth.
SubmittedDepths_NoCutoff(depth, extend_depth, n) ==
    queue_links_depths(LinkDepth(depth, extend_depth), n)

\* The links fetch_url submits through queue_links for a task of the given
\* depth: none when it returns at the cutoff.
SubmittedDepths(depth, extend_depth, n) ==
    IF ExpandsLinks(depth, extend_depth)
    THEN queue_links_depths(LinkDepth(depth, extend_depth), n)
    ELSE <<>>

FetchRecord(depth, extend_depth, n) ==
    [depth |-> depth, extend_depth |-> extend_depth, fetched |-> TRUE,
     surviving |-> n, submitted |-> SubmittedDepths(depth, extend_depth, n)]

\* fetch_url expands the page at the tip of branch b, an admission page or
\* not, with n links that pass the filter, and the branch goes on with one
\* of them.
ExpandPage(b, extend_depth, n) ==
    /\ levels_beyond[b] < MaxBeyond
    /\ ExpandsLinks(task_depth[b], extend_depth)
    /\ n > 0
    /\ task_depth' = [task_depth EXCEPT
                         ![b] = LinkDepth(task_depth[b], extend_depth)]
    /\ levels_beyond' = [levels_beyond EXCEPT
                            ![b] = IF task_depth[b] <= 0 THEN @ + 1 ELSE @]
    /\ last_fetch' = FetchRecord(task_depth[b], extend_depth, n)
    /\ UNCHANGED nonDepthVars

\* fetch_url handles a page at the depth of the tip of branch b from which
\* the branch does not go on: it returns at the cutoff, or no link of the
\* page passes the filter.
FetchLeafPage(b, extend_depth, n) ==
    /\ ~ExpandsLinks(task_depth[b], extend_depth) \/ n = 0
    /\ last_fetch' = FetchRecord(task_depth[b], extend_depth, n)
    /\ UNCHANGED <<task_depth, levels_beyond>>
    /\ UNCHANGED nonDepthVars

\* fetch_url puts a critical application link of an admission page, which
\* carries the full depth budget again, and the branch goes on with it; the
\* n links of the page that pass the filter go through queue_links.
FollowCriticalLink(b, n) ==
    /\ task_depth' = [task_depth EXCEPT ![b] = MAX_DEPTH]
    /\ levels_beyond' = [levels_beyond EXCEPT ![b] = 0]
    /\ last_fetch' = FetchRecord(task_depth[b], TRUE, n)
    /\ UNCHANGED nonDepthVars

\* ------------------------------------------------------------------------
\* Signals and shutdown (main.py, crawler/shutdown.py)
\* ------------------------------------------------------------------------

\* setup_signal_handlers: signal.signal(SIGINT, signal_handler) and the same
\* for SIGTERM; signal.signal replaces the handler installed before.
setup_signal_handlers == "signal_handler"

Running == run_pc \in {"configure", "setup", "crawl", "finish"}

\* main(): signal.signal(SIGINT / SIGTERM, lambda: enhanced_signal_handler(
\* signum, frame, args.shutdown_timeout)).
InstallEnhancedHandler ==
    /\ run_pc = "configure"
    /\ handler' = "enhanced_signal_handler"
    /\ run_pc' = "setup"
    /\ UNCHANGED <<force_exit_event, timers, flag_shutdown_requested,
                   shutdown_requested, signals, since_signal>>
    /\ UNCHANGED nonShutdownVars

\* main(): atexit, logging, configuration, the queue, "setup_signal_handlers()".
MainSetupSignalHandlers ==
    /\ run_pc = "setup"
    /\ handler' = setup_signal_handlers
    /\ run_pc' = "crawl"
    /\ UNCHANGED <<force_exit_event, timers, flag_shutdown_requested,
                   shutdown_requested, signals, since_signal>>
    /\ UNCHANGED nonShutdownVars

\* SIGINT or SIGTERM arrives while a handler of the program is installed, and
\* the installed handler runs.  enhanced_signal_handler sets the event,
\* starts a Timer(timeout, force_exit) and schedules request_shutdown();
\* signal_handler sets the module flag and nothing else.
SignalReceived ==
    /\ Running
    /\ handler # "default"
    /\ signals < MaxSignals
    /\ signals' = signals + 1
    /\ UNCHANGED since_signal
    /\ IF handler = "enhanced_signal_handler"
       THEN /\ force_exit_event' = TRUE
            /\ timers' = timers \cup {shutdown_timeout}
            /\ shutdown_requested' = TRUE
            /\ UNCHANGED flag_shutdown_requested
       ELSE /\ flag_shutdown_requested' = TRUE
            /\ UNCHANGED <<force_exit_event, timers, shutdown_requested>>
    /\ UNCHANGED <<handler, run_pc>>
    /\ UNCHANGED nonShutdownVars

\* One pass of the wait loop of main(): "if await check_for_shutdown() or
\* _force_exit_event.is_set(): ... break"; check_for_shutdown resets the
\* flag and requests the shutdown.  The loop also ends when the crawl is
\* complete (leave), and otherwise sleeps and goes round.
MainLoopShutdownCheck(leave) ==
    /\ run_pc = "crawl"
    /\ IF flag_shutdown_requested
       THEN /\ flag_shutdown_requested' = FALSE
            /\ shutdown_requested' = TRUE
       ELSE UNCHANGED <<flag_shutdown_requested, shutdown_requested>>
    /\ run_pc' = IF flag_shutdown_requested \/ force_exit_event \/ leave
                 THEN "finish"
                 ELSE "crawl"
    /\ UNCHANGED <<handler, force_exit_event, timers, signals, since_signal>>
    /\ UNCHANGED nonShutdownVars

\* The rest of main() after the loop (remaining batch, join, cancellation of
\* the workers, evaluation, export, cleanup) comes to its end.
MainReturns ==
    /\ run_pc = "finish"
    /\ run_pc' = "exited"
    /\ UNCHANGED <<handler, force_exit_event, timers, flag_shutdown_requested,
                   shutdown_requested, signals, since_signal>>
    /\ UNCHANGED nonShutdownVars

\* force_exit, called by a timer that has run out: "if
\* _force_exit_event.is_set(): os._exit(1)".
force_exit ==
    /\ Running
    /\ 0 \in timers
    /\ timers' = timers \ {0}
    /\ run_pc' = IF force_exit_event THEN "force_exited" ELSE run_pc
    /\ UNCHANGED <<handler, force_exit_event, flag_shutdown_requested,
                   shutdown_requested, signals, since_signal>>
    /\ UNCHANGED nonShutdownVars

\* One second passes for the running process; a timer that has run out has
\* called force_exit before.
ShutdownTick ==
    /\ Running
    /\ 0 \notin timers
    /\ since_signal < MaxShutdownTime
    /\ timers' = {t - 1 : t \in timers}
    /\ since_signal' = IF signals = 0 THEN 0 ELSE since_signal + 1
    /\ UNCHANGED <<handler, run_pc, force_exit_event, flag_shutdown_requested,
                   shutdown_requested, signals>>
    /\ UNCHANGED nonShutdownVars

\* ------------------------------------------------------------------------
\* One target https://u.edu: URL filter, URL priority and queue_links
\* (utils/url_service.py, crawler/fetcher.py).  A URL of the site is its
\* path, a sequence of segments; the seed is the empty path.
\* ------------------------------------------------------------------------

SeedPath == <<>>

ApplyFirstYear == <<"apply", "first-year">>

NewsOne == <<"news", "1">>

\* The paths that the seed page may link to.
SitePaths ==
    {SeedPath, ApplyFirstYear, NewsOne, <<"news">>, <<"events", "2">>,
     <<"about">>, <<"transfer">>, <<"academics", "majors">>}

\* More paths of the site, all of which pass is_valid_url: the links of a
\* navigation menu.
MenuPaths ==
    {<<"undergraduate">>, <<"freshman">>, <<"applicant">>, <<"academics">>,
     <<"housing">>, <<"students", "life">>, <<"tuition">>}

\* Menu links that may be missing on a page that has the menu.
MaxMenuMissing == 1

\* The sets of links of the seed page: any of SitePaths, without the menu or
\* with all of it but MaxMenuMissing links.
SitePages ==
    {S \cup E : S \in SUBSET SitePaths,
                E \in {{}} \cup {E \in SUBSET MenuPaths :
                                   Cardinality(MenuPaths \ E) <= MaxMenuMissing}}

\* Config.EXCLUDED_PATTERNS of the form "/segment/" whose segment occurs in
\* SitePaths: the pattern matches a path that holds the segment followed by
\* a slash, that is as a segment other than the last.
ExcludedSegments == {"news", "events", "about"}

ExcludedPattern(path) ==
    \E i \in 1..(Len(path) - 1) : path[i] \in ExcludedSegments

MaxPathSegments == 8

MaxSegmentRepeats == 2

\* is_valid_url: the scheme and the extension of every URL of the site pass;
\* excluded pattern, path longer than 8 segments without an application
\* keyword, a segment that occurs more than twice.
is_valid_url(path) ==
    /\ ~ExcludedPattern(path)
    /\ Len(path) > MaxPathSegments =>
           \E i \in 1..Len(path) : path[i] \in {"apply", "admission",
                                                 "freshman", "application"}
    /\ \A i \in 1..Len(path) :
           Cardinality({j \in 1..Len(path) : path[j] = path[i]})
               <= MaxSegmentRepeats

\* Segments that begin with one of Config.HIGH_PRIORITY_PATTERNS.
HighPrioritySegments == {"apply", "admission", "admissions", "undergraduate"}

\* Config.APPLICATION_KEYWORDS, in the order of the list.
APPLICATION_KEYWORDS ==
    <<"apply", "application", "admission", "admissions", "undergraduate",
      "freshman", "enroll", "register", "portal", "submit", "first-year",
      "transfer", "applicant", "prospective">>

\* path_depth ** 1.5 in tenths, rounded down, for the depths of SitePaths.
DepthPenaltyTenths(path_depth) ==
    CASE path_depth = 0 -> 0
      [] path_depth = 1 -> 10
      [] path_depth = 2 -> 28
      [] OTHER -> 51

\* get_url_priority, in tenths, on the domain u.edu (which is no admission
\* subdomain): 0 for a high-priority pattern, 6 + 0.1 i for the first
\* application keyword in the path, else 10 + depth + depth ** 1.5.
get_url_priority(path) ==
    IF \E i \in 1..Len(path) : path[i] \in HighPrioritySegments
    THEN 0
    ELSE IF \E k \in 1..Len(APPLICATION_KEYWORDS), i \in 1..Len(path) :
                path[i] = APPLICATION_KEYWORDS[k]
    THEN LET k == CHOOSE k \in 1..Len(APPLICATION_KEYWORDS) :
                      /\ \E i \in 1..Len(path) :
                             path[i] = APPLICATION_KEYWORDS[k]
                      /\ \A j \in 1..(k - 1), i \in 1..Len(path) :
                             path[i] # APPLICATION_KEYWORDS[j]
         IN  60 + (k - 1)
    ELSE 10 * (10 + Len(path)) + DepthPenaltyTenths(Len(path))

\* get_link_limit for a regular domain at depth >= MAX_DEPTH - 1.
link_limit == 10

\* queue_links: the links that pass the filters ("if await
\* state_manager.is_url_visited(link): continue", "if not
\* is_valid_url(link): continue"), each with its priority.
filtered_links(links, visited) ==
    {[priority |-> get_url_priority(l), url |-> l] :
        l \in {l \in links : l \notin visited /\ is_valid_url(l)}}

\* The slice left out: every filtered link is put.
TopLinks_All(F) == F

\* The first k of the links F in the order of "filtered_links.sort(key=lambda
\* x: x[0])": a link of the smallest priority value, then the first k - 1 of
\* the others.
RECURSIVE SortedPrefix(_, _)
SortedPrefix(F, k) ==
    IF k = 0 \/ F = {}
    THEN {}
    ELSE LET first == CHOOSE a \in F : \A b \in F : a.priority <= b.priority
         IN  {first} \cup SortedPrefix(F \ {first}, k - 1)

\* "filtered_links.sort(key=lambda x: x[0])" and "filtered_links[:link_limit]"
TopLinks(F) == SortedPrefix(F, link_limit)

\* prepare_url_queue: put((0, base_url, MAX_DEPTH, university)); put adds the
\* URL to url_set and to the visited set.
SitePrepare ==
    /\ site_pc = "start"
    /\ site_queue' = {[priority |-> 0, url |-> SeedPath]}
    /\ site_url_set' = {SeedPath}
    /\ site_visited' = {SeedPath}
    /\ site_pc' = "seeded"
    /\ UNCHANGED site_links
    /\ UNCHANGED nonSiteVars

\* A worker gets the seed task and fetch_url fetches the page, whose links
\* are L; the seed is no admission page, so no critical links are looked
\* for; queue_links puts the top filtered links, and put drops a URL in
\* url_set and adds the others to url_set and to the visited set.
SiteFetchSeed(L) ==
    /\ site_pc = "seeded"
    /\ LET puts == {t \in TopLinks(filtered_links(L, site_visited)) :
                        t.url \notin site_url_set}
       IN  /\ site_queue' = (site_queue \ {[priority |-> 0, url |-> SeedPath]})
                                \cup puts
           /\ site_url_set' = site_url_set \cup {t.url : t \in puts}
           /\ site_visited' = site_visited \cup {t.url : t \in puts}
    /\ site_links' = L
    /\ site_pc' = "fetched"
    /\ UNCHANGED nonSiteVars

\* ------------------------------------------------------------------------
\* normalize_url (utils/url_service.py) on the URLs https://u.edu/a?<query>.
\* A string is a sequence of characters.  Scheme, host and path of these
\* URLs are in normal form and the query holds no "#", so normalize_url
\* changes the query only, and a URL is given by its query (an empty query
\* stands for the URL without "?").
\* ------------------------------------------------------------------------

\* "for char in ['<', '>', '\"', \"'\", '\\', '\n', '\r', '\t']:
\* url = url.replace(char, '')"
CleanedChars == {"<", ">", "\"", "'", "\\", "\n", "\r", "\t"}

RemoveChars(str) == SelectSeq(str, LAMBDA c : c \notin CleanedChars)

\* str.replace(old, ""): the occurrences of old found in one scan from the
\* left are removed; what the removals bring together is not looked at.
RECURSIVE Remove(_, _)
Remove(str, old) ==
    IF Len(str) < Len(old) THEN str
    ELSE IF SubSeq(str, 1, Len(old)) = old
    THEN Remove(SubSeq(str, Len(old) + 1, Len(str)), old)
    ELSE <<Head(str)>> \o Remove(Tail(str), old)

\* url.replace("%22", ""), then "%3C", then "%3E"
RemoveEncoded(str) ==
    Remove(Remove(Remove(str, <<"%", "2", "2">>), <<"%", "3", "C">>),
           <<"%", "3", "E">>)

\* str.split(sep): the pieces between the occurrences of the character.
RECURSIVE Split(_, _)
Split(str, sep) ==
    IF \A i \in 1..Len(str) : str[i] # sep THEN <<str>>
    ELSE LET i == CHOOSE i \in 1..Len(str) :
                      str[i] = sep /\ \A j \in 1..(i - 1) : str[j] # sep
         IN  <<SubSeq(str, 1, i - 1)>>
                 \o Split(SubSeq(str, i + 1, Len(str)), sep)

\* The hexadecimal digits that occur in the strings built from QueryChars
\* and from what unquote makes of them, and the character of each escape.
HexDigits == {"2", "6", "b", "f"}

HexDecode(h, l) ==
    CASE h = "2" /\ l = "2" -> "\""
      [] h = "2" /\ l = "6" -> "&"
      [] h = "2" /\ l = "b" -> "+"
      [] h = "2" /\ l = "f" -> "/"
      [] h = "6" /\ l = "2" -> "b"
      [] h = "6" /\ l = "6" -> "f"
      [] h = "6" /\ l = "b" -> "k"
      [] h = "6" /\ l = "f" -> "o"
      [] OTHER -> "U+FFFD"

\* urllib.parse.unquote: each %XX with two hexadecimal digits becomes the
\* character it encodes; any other "%" stays.
RECURSIVE unquote(_)
unquote(str) ==
    IF str = <<>> THEN <<>>
    ELSE IF /\ Head(str) = "%"
            /\ Len(str) >= 3
            /\ str[2] \in HexDigits
            /\ str[3] \in HexDigits
    THEN <<HexDecode(str[2], str[3])>> \o unquote(SubSeq(str, 4, Len(str)))
    ELSE <<Head(str)>> \o unquote(Tail(str))

\* parse_qsl: "name = nv[0].replace('+', ' '); name = unquote(name)"
Decoded(str) == unquote([i \in 1..Len(str) |->
                            IF str[i] = "+" THEN " " ELSE str[i]])

\* urllib.parse.parse_qs without keep_blank_values, as the sequence of its
\* (name, value) pairs: the query is split at "&", a field at its first "=";
\* a field without "=" or with an empty value is dropped.
RECURSIVE FieldPairs(_)
FieldPairs(fields) ==
    IF fields = <<>> THEN <<>>
    ELSE LET nv == Split(Head(fields), "=")
             value == SubSeq(Head(fields), Len(nv[1]) + 2, Len(Head(fields)))
         IN  IF Len(nv) < 2 \/ value = <<>>
             THEN FieldPairs(Tail(fields))
             ELSE <<[name |-> Decoded(nv[1]), value |-> Decoded(value)]>>
                      \o FieldPairs(Tail(fields))

parse_qs(query) == FieldPairs(Split(query, "&"))

\* The tracking parameters that normalize_url deletes.
TrackingParams ==
    {<<"u", "t", "m", "_", "s", "o", "u", "r", "c", "e">>,
     <<"u", "t", "m", "_", "m", "e", "d", "i", "u", "m">>,
     <<"u", "t", "m", "_", "c", "a", "m", "p", "a", "i", "g", "n">>,
     <<"u", "t", "m", "_", "t", "e", "r", "m">>,
     <<"u", "t", "m", "_", "c", "o", "n", "t", "e", "n", "t">>,
     <<"f", "b", "c", "l", "i", "d">>,
     <<"g", "c", "l", "i", "d">>,
     <<"r", "e", "f">>,
     <<"s", "o", "u", "r", "c", "e">>,
     <<"m", "c", "_", "c", "i", "d">>,
     <<"m", "c", "_", "e", "i", "d">>,
     <<"_", "g", "a">>}

\* The code point of a character, for the order of sorted().
CodePoint(c) ==
    CASE c = " " -> 32
      [] c = "%" -> 37
      [] c = "&" -> 38
      [] c = "+" -> 43
      [] c = "/" -> 47
      [] c = "2" -> 50
      [] c = "6" -> 54
      [] c = "=" -> 61
      [] c = "b" -> 98
      [] c = "f" -> 102
      [] c = "k" -> 107
      [] c = "o" -> 111
      [] OTHER -> 65533

\* The order of Python strings: a proper prefix first, else by the first
\* character that differs.
RECURSIVE StrLess(_, _)
StrLess(a, b) ==
    IF b = <<>> THEN FALSE
    ELSE IF a = <<>> THEN TRUE
    ELSE IF Head(a) = Head(b) THEN StrLess(Tail(a), Tail(b))
    ELSE CodePoint(Head(a)) < CodePoint(Head(b))

PairLess(p, q) ==
    \/ StrLess(p.name, q.name)
    \/ p.name = q.name /\ StrLess(p.value, q.value)

\* "for key in sorted(query_dict.keys()): for value in
\* sorted(query_dict[key])": the pairs by name, then by value.
RECURSIVE SortedPairs(_)
SortedPairs(pairs) ==
    IF pairs = <<>> THEN <<>>
    ELSE LET rest == SortedPairs(Tail(pairs))
             before == SelectSeq(rest, LAMBDA q : ~PairLess(Head(pairs), q))
             after == SelectSeq(rest, LAMBDA q : PairLess(Head(pairs), q))
         IN  before \o <<Head(pairs)>> \o after

\* "&".join(f"{key}={value}" ...): names and values as decoded.
RECURSIVE JoinPairs(_)
JoinPairs(pairs) ==
    IF pairs = <<>> THEN <<>>
    ELSE Head(pairs).name \o <<"=">> \o Head(pairs).value
             \o (IF Len(pairs) > 1 THEN <<"&">> ELSE <<>>)
             \o JoinPairs(Tail(pairs))

\* normalize_url on the query: clean, and if a query is left parse it, drop
\* the tracking parameters and rebuild it in sorted order.
normalize_url(query) ==
    LET cleaned == RemoveEncoded(RemoveChars(query))
    IN  IF cleaned = <<>> THEN <<>>
        ELSE JoinPairs(SortedPairs(
                 SelectSeq(parse_qs(cleaned),
                           LAMBDA p : p.name \notin TrackingParams)))

\* The caller builds the URL: one more character of the query.
AppendQueryChar(c) ==
    /\ norm_pc = "input"
    /\ Len(url_query) < MaxQueryLen
    /\ url_query' = Append(url_query, c)
    /\ UNCHANGED <<norm_pc, normalized, renormalized>>
    /\ UNCHANGED nonNormalizeVars

\* normalize_url is applied to the URL, and again to its result.
NormalizeTwice ==
    /\ norm_pc = "input"
    /\ normalized' = normalize_url(url_query)
    /\ renormalized' = normalize_url(normalize_url(url_query))
    /\ norm_pc' = "done"
    /\ UNCHANGED url_query
    /\ UNCHANGED nonNormalizeVars

\* ------------------------------------------------------------------------
\* CheckpointManager.  Its methods hold self.lock and never suspend inside
\* it, so each call is one step.
\* ------------------------------------------------------------------------

\* A trigger that looks at the maximum and at the interval only.
should_process_batch_NoMinimum(pending, clock) ==
    \/ Len(pending) >= max_batch_size
    \/ clock - last_checkpoint_time >= checkpoint_interval

\* CheckpointManager.should_process_batch, on the pending list after the
\* append and the clock as read by time.time().
should_process_batch(pending, clock) ==
    IF Len(pending) >= min_batch_size
    THEN IF Len(pending) >= max_batch_size
         THEN TRUE
         ELSE IF clock - last_checkpoint_time >= checkpoint_interval
              THEN TRUE
              ELSE FALSE
    ELSE FALSE

\* A batch that takes the whole pending list.
batch_size_Everything(pending) == Len(pending)

\* "batch_size = min(len(self.pending_applications), self.max_batch_size)"
batch_size(pending) == Min(Len(pending), max_batch_size)

\* CheckpointManager.add_application_page
add_application_page(page) ==
    /\ Len(pending_applications) < MaxPending
    /\ checkpoint_call.n < MaxCheckpointCalls
    /\ pending_applications' = Append(pending_applications, page)
    /\ checkpoint_call' =
           [n |-> checkpoint_call.n + 1, op |-> "add",
            triggered |-> should_process_batch(pending_applications',
                                               checkpoint_clock),
            batch |-> <<>>]
    /\ UNCHANGED <<last_checkpoint_time, checkpoint_clock, nonCheckpointVars>>

\* CheckpointManager.get_batch_for_processing
get_batch_for_processing ==
    /\ checkpoint_call.n < MaxCheckpointCalls
    /\ LET k == batch_size(pending_applications)
       IN  /\ checkpoint_call' =
                  [n |-> checkpoint_call.n + 1, op |-> "get",
                   triggered |-> FALSE,
                   batch |-> IF k = 0 THEN <<>>
                             ELSE SubSeq(pending_applications, 1, k)]
           /\ pending_applications' =
                  IF k = 0 THEN pending_applications
                  ELSE SubSeq(pending_applications, k + 1,
                              Len(pending_applications))
           /\ last_checkpoint_time' =
                  IF k = 0 THEN last_checkpoint_time ELSE checkpoint_clock
    /\ UNCHANGED <<checkpoint_clock, nonCheckpointVars>>

\* Time passes between two calls of the checkpoint manager.
CheckpointTick ==
    /\ checkpoint_clock < MaxCheckpointTime
    /\ checkpoint_clock' = checkpoint_clock + 1
    /\ UNCHANGED <<pending_applications, last_checkpoint_time,
                   checkpoint_call, nonCheckpointVars>>

\* ------------------------------------------------------------------------
\* The worker loop (crawler/worker.py) and the in-flight set of the shutdown
\* controller (crawler/shutdown.py).  The frontier is reduced to the set of
\* its URLs: get suspends and later returns one of them, times out after
\* 1.0 s or is cancelled.  A task id holds the worker's id and the time, so
\* an entry of the in-flight set is given by the worker and the URL.
\* ------------------------------------------------------------------------

NoTask == "no task"

\* The ways in which "await asyncio.wait_for(fetch_url(...), timeout)" ends.
FetchOutcomes == {"success", "timeout", "exception", "cancelled"}

\* A worker without the handler "except Exception" around the task.
Propagates_Errors(outcome) == outcome \in {"exception", "cancelled"}

\* The outcomes that leave the inner try statement as an exception:
\* TimeoutError and Exception are caught there, CancelledError is not.
Propagates(outcome) == outcome = "cancelled"

\* "if consecutive_timeouts >= 3"
TimeoutsBeforeBackoff == 3

\* An unregister that leaves the entry in the set.
unregister_task_Kept(active, w, url) == active

\* GracefulShutdown.register_task and unregister_task
register_task(active, w, url) == active \cup {<<w, url>>}

unregister_task(active, w, url) == active \ {<<w, url>>}

\* "while await state_manager.is_crawler_running()", the shutdown test, and
\* the call of get, which suspends.
LoopEntry(w) ==
    IF ~wk_running
    THEN [pc |-> "exited", exit |-> "stopped"]
    ELSE IF wk_shutdown
    THEN [pc |-> "exited", exit |-> "shutdown"]
    ELSE [pc |-> "getting", exit |-> None]

\* The finally block of the worker for its task: unregister_task and
\* task_done; then the loop goes round, unless an exception that left the
\* inner try statement ends it.
FinishTask(w, outcome) ==
    LET next == IF Propagates(outcome)
                THEN [pc |-> "exited", exit |-> outcome]
                ELSE LoopEntry(w)
    IN  /\ active_tasks' = unregister_task(active_tasks, w, wk_task[w])
        /\ wk_done' = [wk_done EXCEPT ![wk_task[w]] = @ + 1]
        /\ wk_task' = [wk_task EXCEPT ![w] = NoTask]
        /\ wk_last' = [wk_last EXCEPT ![w] = outcome]
        /\ wk_pc' = [wk_pc EXCEPT ![w] = next.pc]
        /\ wk_exit' = [wk_exit EXCEPT ![w] = next.exit]

\* prepare_url_queue or a fetch puts a URL that was never put before.
PoolPut(u) ==
    /\ u \notin wk_put
    /\ wk_put' = wk_put \cup {u}
    /\ wk_queue' = wk_queue \cup {u}
    /\ UNCHANGED <<wk_pc, wk_task, active_tasks, wk_running, wk_shutdown,
                   wk_limit, errors, consecutive_timeouts, wk_done, wk_last,
                   wk_exit, nonWorkerVars>>

\* start_workers creates the worker, which enters its loop.
WorkerStart(w) ==
    /\ wk_pc[w] = "start"
    /\ wk_pc' = [wk_pc EXCEPT ![w] = LoopEntry(w).pc]
    /\ wk_exit' = [wk_exit EXCEPT ![w] = LoopEntry(w).exit]
    /\ UNCHANGED <<wk_task, wk_queue, wk_put, active_tasks, wk_running,
                   wk_shutdown, wk_limit, errors, consecutive_timeouts,
                   wk_done, wk_last, nonWorkerVars>>

\* get returns url: the task is registered; at the URL limit "continue"
\* runs the finally block at once, else fetch_url is started.
GetReturns(w, url) ==
    /\ wk_pc[w] = "getting"
    /\ url \in wk_queue
    /\ wk_queue' = wk_queue \ {url}
    /\ IF wk_limit
       THEN /\ active_tasks' =
                   unregister_task(register_task(active_tasks, w, url), w, url)
            /\ wk_done' = [wk_done EXCEPT ![url] = @ + 1]
            /\ wk_last' = [wk_last EXCEPT ![w] = "skipped"]
            /\ wk_pc' = [wk_pc EXCEPT ![w] = LoopEntry(w).pc]
            /\ wk_exit' = [wk_exit EXCEPT ![w] = LoopEntry(w).exit]
            /\ UNCHANGED wk_task
       ELSE /\ active_tasks' = register_task(active_tasks, w, url)
            /\ wk_task' = [wk_task EXCEPT ![w] = url]
            /\ wk_pc' = [wk_pc EXCEPT ![w] = "fetching"]
            /\ UNCHANGED <<wk_done, wk_last, wk_exit>>
    /\ UNCHANGED <<wk_put, wk_running, wk_shutdown, wk_limit, errors,
                   consecutive_timeouts, nonWorkerVars>>

\* wait_for ends get after 1.0 s: "except asyncio.TimeoutError: continue".
GetTimesOut(w) ==
    /\ wk_pc[w] = "getting"
    /\ wk_pc' = [wk_pc EXCEPT ![w] = LoopEntry(w).pc]
    /\ wk_exit' = [wk_exit EXCEPT ![w] = LoopEntry(w).exit]
    /\ UNCHANGED <<wk_task, wk_queue, wk_put, active_tasks, wk_running,
                   wk_shutdown, wk_limit, errors, consecutive_timeouts,
                   wk_done, wk_last, nonWorkerVars>>

\* The worker is cancelled in get: "except asyncio.CancelledError: break".
GetCancelled(w) ==
    /\ wk_pc[w] = "getting"
    /\ wk_pc' = [wk_pc EXCEPT ![w] = "exited"]
    /\ wk_exit' = [wk_exit EXCEPT ![w] = "cancelled"]
    /\ UNCHANGED <<wk_task, wk_queue, wk_put, active_tasks, wk_running,
                   wk_shutdown, wk_limit, errors, consecutive_timeouts,
                   wk_done, wk_last, nonWorkerVars>>

\* The fetch of the task ends.  After the third timeout in a row and after
\* more than MaxQuietErrors errors the handler sleeps before the finally
\* block is reached; otherwise the finally block runs at once.
FetchEnds(w, outcome) ==
    /\ wk_pc[w] = "fetching"
    /\ consecutive_timeouts' =
           [consecutive_timeouts EXCEPT
               ![w] = IF outcome = "success" THEN 0
                      ELSE IF outcome = "timeout" THEN @ + 1
                      ELSE @]
    /\ errors' = [errors EXCEPT
                     ![w] = IF outcome = "exception" /\ ~Propagates(outcome)
                            THEN @ + 1 ELSE @]
    /\ IF \/ outcome = "timeout"
             /\ consecutive_timeouts[w] + 1 >= TimeoutsBeforeBackoff
          \/ outcome = "exception" /\ ~Propagates(outcome)
             /\ errors[w] + 1 > MaxQuietErrors
       THEN /\ wk_pc' = [wk_pc EXCEPT ![w] = "sleeping"]
            /\ wk_last' = [wk_last EXCEPT ![w] = outcome]
            /\ UNCHANGED <<active_tasks, wk_done, wk_task, wk_exit>>
       ELSE FinishTask(w, outcome)
    /\ UNCHANGED <<wk_queue, wk_put, wk_running, wk_shutdown, wk_limit,
                   nonWorkerVars>>

\* The sleep of a handler ends, or the worker is cancelled in it; the
\* finally block runs in both cases.
HandlerSleepEnds(w, cancelled) ==
    /\ wk_pc[w] = "sleeping"
    /\ FinishTask(w, IF cancelled THEN "cancelled" ELSE wk_last[w])
    /\ UNCHANGED <<wk_queue, wk_put, wk_running, wk_shutdown, wk_limit,
                   errors, consecutive_timeouts, nonWorkerVars>>

\* state_manager.stop_crawler
PoolStopCrawler ==
    /\ wk_running
    /\ wk_running' = FALSE
    /\ UNCHANGED <<wk_pc, wk_task, wk_queue, wk_put, active_tasks,
                   wk_shutdown, wk_limit, errors, consecutive_timeouts,
                   wk_done, wk_last, wk_exit, nonWorkerVars>>

\* shutdown_controller.request_shutdown
request_shutdown ==
    /\ ~wk_shutdown
    /\ wk_shutdown' = TRUE
    /\ UNCHANGED <<wk_pc, wk_task, wk_queue, wk_put, active_tasks,
                   wk_running, wk_limit, errors, consecutive_timeouts,
                   wk_done, wk_last, wk_exit, nonWorkerVars>>

\* The queued counter reaches Config.MAX_TOTAL_URLS.
PoolLimitReached ==
    /\ ~wk_limit
    /\ wk_limit' = TRUE
    /\ UNCHANGED <<wk_pc, wk_task, wk_queue, wk_put, active_tasks,
                   wk_running, wk_shutdown, errors, consecutive_timeouts,
                   wk_done, wk_last, wk_exit, nonWorkerVars>>

\* ------------------------------------------------------------------------
\* Persistence of the CheckpointManager.  The file writes are blocking
\* calls made by the coroutine itself, so a method with its writes is one
\* step; each write is recorded with whether self.lock was held by the
\* caller and with the object that was handed to json.dump.
\* ------------------------------------------------------------------------

\* The batches that main hands to add_evaluated_applications.
EvaluatedBatches == {<<"p1">>, <<"p2">>, <<"p1", "p2">>}

\* save_checkpoint, called with or without self.lock held: the pending
\* list is dumped if it is not empty, the evaluated list is dumped twice and
\* handed to the report generator if it is not empty.  json.dump is given
\* the attribute of the manager itself.
save_checkpoint(lock_held, pending, evaluated) ==
    {[file |-> f, lock_held |-> lock_held,
      data |-> "self.pending_applications"] :
        f \in IF pending # <<>> THEN {"pending"} ELSE {}}
    \cup
    {[file |-> f, lock_held |-> lock_held,
      data |-> "self.evaluated_applications"] :
        f \in IF evaluated # <<>>
              THEN {"evaluated", "evaluated_all", "how_to_apply"}
              ELSE {}}

\* add_evaluated_applications: "async with self.lock:
\* self.evaluated_applications.extend(applications); await
\* self.save_checkpoint()", the call inside the with block.
add_evaluated_applications(applications) ==
    /\ Len(evaluated_applications) + Len(applications) <= MaxEvaluated
    /\ evaluated_applications' = evaluated_applications \o applications
    /\ checkpoint_writes' =
           checkpoint_writes
               \cup save_checkpoint(TRUE, pending_applications,
                                    evaluated_applications \o applications)
    /\ UNCHANGED nonPersistVars

\* save_crawler_state: takes no lock of the manager and dumps a dictionary
\* built from the values the state manager returned.
save_crawler_state ==
    /\ checkpoint_writes' =
           checkpoint_writes
               \cup {[file |-> "crawler_state", lock_held |-> FALSE,
                      data |-> "copy"]}
    /\ UNCHANGED <<evaluated_applications, nonPersistVars>>

\* ------------------------------------------------------------------------
\* fetch_url: redirects and critical application links.  One task is fetched
\* at a time; redirect_chains maps a URL to its chain, the empty sequence
\* standing for a missing key.
\* ------------------------------------------------------------------------

NoUrl == 0

\* The key that fetch_url looks the chain up with when it tests a critical
\* link: its variable url, which holds the final URL after "url = final_url".
ChainKey(origin, final) == final

\* RedirectTracker.is_in_redirect_chain: "chain =
\* self.redirect_chains.get(chain_url, []); return target_url in chain"
is_in_redirect_chain(chains, chain_url, target_url) ==
    \E i \in DOMAIN chains[chain_url] : chains[chain_url][i] = target_url

\* prepare_url_queue puts a seed.
CritSeedPut(u) ==
    /\ crit_origin = NoUrl
    /\ u \notin crit_visited
    /\ crit_frontier' = crit_frontier \cup {u}
    /\ crit_visited' = crit_visited \cup {u}
    /\ UNCHANGED <<crit_chains, crit_origin, crit_submitted,
                   nonCriticalVars>>

\* A worker gets a task and fetch_url runs up to the request:
\* start_tracking(url).
CritFetchStart(o) ==
    /\ crit_origin = NoUrl
    /\ o \in crit_frontier
    /\ crit_frontier' = crit_frontier \ {o}
    /\ crit_chains' = [crit_chains EXCEPT ![o] = <<o>>]
    /\ crit_origin' = o
    /\ UNCHANGED <<crit_visited, crit_submitted, nonCriticalVars>>

\* The response arrives with status 200 from final URL f, for a page that
\* is admission-flavoured or not and carries the application links L.  A
\* redirect is added to the chain of the task URL and ends the fetch if
\* add_redirect refuses it.  On an admission page the links that are not
\* visited are critical links; each is put with priority 0 unless
\* is_in_redirect_chain finds it, and put admits a URL it has not seen.
CritResponse(f, admission, L) ==
    /\ crit_origin # NoUrl
    /\ LET o == crit_origin
           chain == IF f # o THEN Append(crit_chains[o], f)
                    ELSE crit_chains[o]
           chains == [crit_chains EXCEPT ![o] = chain]
           refused == f # o /\ ~add_redirect_returns(chain, f)
           apply_links == {l \in L : l \notin crit_visited}
           puts == IF refused \/ ~admission THEN {}
                   ELSE {l \in apply_links :
                            ~is_in_redirect_chain(chains, ChainKey(o, f), l)}
       IN  /\ crit_chains' = chains
           /\ crit_submitted' =
                  crit_submitted
                      \cup {[origin |-> o, final |-> f, link |-> l] :
                               l \in puts}
           /\ crit_frontier' = crit_frontier \cup puts
           /\ crit_visited' = crit_visited \cup puts
    /\ crit_origin' = NoUrl
    /\ UNCHANGED nonCriticalVars

\* ------------------------------------------------------------------------
\* Politeness delay per domain and the exception handlers of fetch_url
\* (crawler/fetcher.py).  Delays are in milliseconds.
\* ------------------------------------------------------------------------

\* "default_delay = getattr(Config, 'REQUEST_DELAY', 1.0)"; Config defines no
\* REQUEST_DELAY.
default_delay == 1000

\* The cap of "min(domain_rate_limits[domain] * 1.5, 5.0)".
MaxRateLimit == 5000

\* The classes of the exceptions a fetch may end with, each with the classes
\* it is an instance of: asyncio.TimeoutError, raised when the total timeout
\* of session.get expires, and classes of aiohttp.client_exceptions.
ExceptionBases ==
    [TimeoutError |-> {"TimeoutError", "Exception"},
     ServerDisconnectedError |->
         {"ServerDisconnectedError", "ServerConnectionError",
          "ClientConnectionError", "ClientError", "Exception"},
     ServerTimeoutError |->
         {"ServerTimeoutError", "ServerConnectionError",
          "ClientConnectionError", "ClientError", "TimeoutError", "Exception"},
     ClientConnectorError |->
         {"ClientConnectorError", "ClientOSError", "ClientConnectionError",
          "ClientError", "OSError", "Exception"},
     ClientPayloadError |-> {"ClientPayloadError", "ClientError", "Exception"},
     UnicodeError |-> {"UnicodeError", "ValueError", "Exception"}]

ExceptionClasses == DOMAIN ExceptionBases

\* The outcomes of one fetch: a page, a status other than 200, an exception.
RateOutcomes == {"page", "status"} \cup ExceptionClasses

\* The except clauses of fetch_url in the order of the source.
ExceptClauses ==
    <<"ClientError", "TimeoutError", "ServerDisconnectedError", "Exception">>

\* The clauses whose body raises the delay of the domain.
RaisingClauses == {"TimeoutError", "ServerDisconnectedError"}

\* The clause that handles an exception: the first one that names a class of
\* which the exception is an instance.
HandlingClause(exc) ==
    LET i == CHOOSE i \in 1..Len(ExceptClauses) :
                 /\ ExceptClauses[i] \in ExceptionBases[exc]
                 /\ \A j \in 1..(i - 1) :
                        ExceptClauses[j] \notin ExceptionBases[exc]
    IN  ExceptClauses[i]

\* "min(domain_rate_limits[domain] * 1.5, 5.0)"
RaisedDelay(delay) == Min((delay * 3) \div 2, MaxRateLimit)

\* The delay of the domain after 50 and after 100 fetches: "max(default_delay
\* * 2, domain_rate_limits[domain])" and the same with 3.
CountedDelay(count, delay) ==
    LET d2 == IF count > 50 THEN Max(default_delay * 2, delay) ELSE delay
    IN  IF count > 100 THEN Max(default_delay * 3, d2) ELSE d2

\* The delay of the domain when fetch_url has ended with the outcome.
DelayAfter(outcome, delay) ==
    IF outcome \in ExceptionClasses /\ HandlingClause(outcome) \in RaisingClauses
    THEN RaisedDelay(delay)
    ELSE delay

\* fetch_url for a URL of the domain d: the fetch count and the delay under
\* domain_lock, the sleep, the request and its outcome.
RateFetchUrl(d, outcome) ==
    /\ domain_fetch_counts[d] < MaxFetchesPerDomain
    /\ LET count == domain_fetch_counts[d] + 1
           delay == CountedDelay(count, domain_rate_limits[d])
       IN  /\ domain_fetch_counts' = [domain_fetch_counts EXCEPT ![d] = count]
           /\ domain_rate_limits' =
                  [domain_rate_limits EXCEPT ![d] = DelayAfter(outcome, delay)]
           /\ rate_last' = [domain |-> d, outcome |-> outcome, slept |-> delay]
    /\ UNCHANGED nonRateVars

\* ------------------------------------------------------------------------
\* Stopping: the flags crawler_running and shutdown_requested, the worker
\* loop and the entry of fetch_url (crawler/worker.py, crawler/fetcher.py,
\* main.py).  The frontier is the number of its tasks.
\* ------------------------------------------------------------------------

\* "while await state_manager.is_crawler_running()", "if await
\* shutdown_controller.is_shutdown_requested(): break", and the call of get.
StopLoopEntry(running, shutdown) ==
    IF ~running \/ shutdown THEN "exited" ELSE "getting"

\* fetch_url: "if not await state_manager.is_crawler_running(): return";
\* the shutdown request is not looked at.
FetchProceeds(running, shutdown) == running

\* get returns a task to worker w; the worker registers it and calls
\* fetch_url, which returns at once when the crawler is stopped (the finally
\* block runs and the loop goes round) and else sleeps the politeness delay.
StopGetReturns(w) ==
    /\ stop_pc[w] = "getting"
    /\ stop_queue > 0
    /\ stop_queue' = stop_queue - 1
    /\ stop_after' = [stop_after EXCEPT ![w] = ~stop_running \/ stop_shutdown]
    /\ stop_pc' = [stop_pc EXCEPT
                      ![w] = IF FetchProceeds(stop_running, stop_shutdown)
                             THEN "polite"
                             ELSE StopLoopEntry(stop_running, stop_shutdown)]
    /\ UNCHANGED <<stop_running, stop_shutdown, stop_requests>>
    /\ UNCHANGED nonStopVars

\* wait_for ends get after 1.0 s and the loop goes round.
StopGetTimesOut(w) ==
    /\ stop_pc[w] = "getting"
    /\ stop_pc' = [stop_pc EXCEPT
                      ![w] = StopLoopEntry(stop_running, stop_shutdown)]
    /\ UNCHANGED <<stop_queue, stop_running, stop_shutdown, stop_after,
                   stop_requests>>
    /\ UNCHANGED nonStopVars

\* fetch_url: the politeness sleep ends and session.get starts the request.
StopRequestStarts(w) ==
    /\ stop_pc[w] = "polite"
    /\ stop_pc' = [stop_pc EXCEPT ![w] = "request"]
    /\ stop_requests' = stop_requests \cup {[worker |-> w,
                                            after |-> stop_after[w]]}
    /\ UNCHANGED <<stop_queue, stop_running, stop_shutdown, stop_after>>
    /\ UNCHANGED nonStopVars

\* fetch_url ends, having put n links unless the crawler is stopped (put and
\* queue_links give up then); the finally block runs and the loop goes round.
StopFetchEnds(w, n) ==
    /\ stop_pc[w] = "request"
    /\ stop_queue + n <= MaxStopTasks
    /\ ~stop_running => n = 0
    /\ stop_queue' = stop_queue + n
    /\ stop_pc' = [stop_pc EXCEPT
                      ![w] = StopLoopEntry(stop_running, stop_shutdown)]
    /\ UNCHANGED <<stop_running, stop_shutdown, stop_after, stop_requests>>
    /\ UNCHANGED nonStopVars

\* check_for_shutdown in the main loop: shutdown_controller.request_shutdown.
\* The call "state_manager.stop_crawler()" that follows is not awaited and
\* leaves crawler_running as it is.
StopShutdownRequested ==
    /\ ~stop_shutdown
    /\ stop_shutdown' = TRUE
    /\ UNCHANGED <<stop_pc, stop_queue, stop_running, stop_after,
                   stop_requests>>
    /\ UNCHANGED nonStopVars

\* "await state_manager.stop_crawler()" of the monitor, of the main loop at
\* the URL limit, or of the finally block of main.
StopCrawlerStopped ==
    /\ stop_running
    /\ stop_running' = FALSE
    /\ UNCHANGED <<stop_pc, stop_queue, stop_shutdown, stop_after,
                   stop_requests>>
    /\ UNCHANGED nonStopVars

\* The finally block of main cancels a worker after stop_crawler.
StopWorkerCancelled(w) ==
    /\ ~stop_running
    /\ stop_pc[w] # "exited"
    /\ stop_pc' = [stop_pc EXCEPT ![w] = "exited"]
    /\ UNCHANGED <<stop_queue, stop_running, stop_shutdown, stop_after,
                   stop_requests>>
    /\ UNCHANGED nonStopVars

\* ------------------------------------------------------------------------
\* The entry that UniqueURLQueue.put stores for an admitted task
\* (crawler/queue.py).  No limit of put is reached in SpecStore.
\* ------------------------------------------------------------------------

\* The depths of the tasks put: the extended depths of admission pages too.
StoreDepths == -2..MAX_DEPTH

\* "if depth < 0 or depth >= Config.MAX_DEPTH - 3"
DeprioritizedDepth(depth) == depth < 0 \/ depth >= MAX_DEPTH - 3

\* The local variable priority of put after "priority += 5".
put_local_priority(priority, depth) ==
    IF DeprioritizedDepth(depth) THEN priority + 5 ELSE priority

\* "await self.queue.put(item)": the entry is the tuple item that put was
\* called with; the local variable priority is not part of it.
put_entry(priority, url, depth) ==
    [priority |-> priority, url |-> url, depth |-> depth]

\* put((priority, url, depth, university)) for a URL that is not in url_set.
StorePut(priority, url, depth) ==
    /\ url \notin {e.url : e \in store_heap}
    /\ store_heap' = store_heap \cup {put_entry(priority, url, depth)}
    /\ store_submitted' = [store_submitted EXCEPT ![url] = priority]
    /\ UNCHANGED nonStoreVars

\* ------------------------------------------------------------------------
\* The response status in fetch_url (crawler/fetcher.py), with the duplicate
\* check of put (crawler/queue.py).  One domain; no limit of put or of
\* queue_links is reached in SpecStatus.
\* ------------------------------------------------------------------------

\* A fetch_url that goes on whatever the status.
ResponseAccepted_Any(status) == TRUE

\* "if response.status != 200: ... return"
ResponseAccepted(status) == status = 200

\* The URLs of L that a sequence of put calls admits: "if url in
\* self.url_set: return False".
StatusAdmitted(L) == L \ status_url_set

\* put for the URLs of L: an admitted URL enters url_set, the visited set
\* ("await state_manager.add_visited_url(url)") and the heap.
StatusPutAll(L, heap) ==
    /\ status_url_set' = status_url_set \cup StatusAdmitted(L)
    /\ status_visited' = status_visited \cup StatusAdmitted(L)
    /\ status_heap' = heap \cup StatusAdmitted(L)

\* prepare_url_queue puts a seed.
StatusSeedPut(u) ==
    /\ status_fetches = [v \in PoolUrls |-> 0]
    /\ StatusPutAll({u}, status_heap)
    /\ UNCHANGED <<status_counters, status_candidates, status_fetches,
                   status_non200>>
    /\ UNCHANGED nonStatusVars

\* A worker gets the task for u and fetch_url requests the page: on a status
\* other than 200 it returns; else it increments the visited counter and the
\* counter of the domain, registers the page if it is an application page,
\* and queue_links puts the links L that are not visited.
StatusFetch(u, status, is_app_page, L) ==
    /\ u \in status_heap
    /\ status_fetches' = [status_fetches EXCEPT ![u] = @ + 1]
    /\ IF ResponseAccepted(status)
       THEN /\ status_counters' =
                   [visited |-> status_counters.visited + 1,
                    domain |-> status_counters.domain + 1]
            /\ status_candidates' =
                   IF is_app_page THEN status_candidates \cup {u}
                   ELSE status_candidates
            /\ StatusPutAll(L \ status_visited, status_heap \ {u})
       ELSE /\ status_heap' = status_heap \ {u}
            /\ UNCHANGED <<status_counters, status_candidates, status_url_set,
                           status_visited>>
    /\ status_non200' = IF status = 200 THEN status_non200
                        ELSE status_non200 \cup {u}
    /\ UNCHANGED nonStatusVars

\* ------------------------------------------------------------------------
\* The response URL in fetch_url (crawler/fetcher.py): a URL of the site is
\* its path, a sequence of segments, with or without a slash at its end.
\* ------------------------------------------------------------------------

\* The response URLs of the site.
TrailUrls == [path : TrailPaths, slash : BOOLEAN]

\* normalize_url on these URLs: "if path.endswith('/') and len(path) > 1:
\* path = path[:-1]"; the root comes out with the path "/".
normalize_trailing_slash(url) ==
    [url EXCEPT !.slash = Len(url.path) = 0]

\* The URLs a task can carry: fetch_url has normalized them.
TrailTaskUrls == {normalize_trailing_slash(u) : u \in TrailUrls}

\* fetch_url from start_tracking to the redirect test, for the task URL url
\* and the response URL response: FALSE when fetch_url returns with
\* "Skipping URL due to redirect issues", TRUE when it goes on to count,
\* analyze and expand the page.
RedirectAccepted(url, response) ==
    IF response # url
    THEN LET final_url == normalize_trailing_slash(response)
         IN  add_redirect_returns(Append(<<url>>, final_url), final_url)
    ELSE TRUE

\* fetch_url for a task whose request is answered, with status 200, from the
\* URL response.
TrailFetch(url, response) ==
    /\ Cardinality(trail_log) < MaxTrailFetches
    /\ trail_log' = trail_log \cup
           {[url |-> url, response |-> response,
             counted |-> RedirectAccepted(url, response)]}
    /\ UNCHANGED nonTrailVars

\* ------------------------------------------------------------------------
\* Checkpointed evaluation over a whole run (main.py): the wrapper around
\* state_manager.add_application_page, process_checkpoint_batch, the end of
\* the main loop and the final evaluation.  The locks of the state manager
\* and of the checkpoint manager are never held across a suspension, so a
\* caller runs from one suspension to the next in one step; the suspension
\* of process_checkpoint_batch is the evaluation of its batch.  Pages are
\* numbered in the order of their registration.
\* ------------------------------------------------------------------------

\* Who runs process_checkpoint_batch: the workers (inside fetch_url) and the
\* main loop.
EvalCallers == PoolWorkers \cup {"main"}

\* The pages of a list.
EvalRange(s) == {s[i] : i \in 1..Len(s)}

\* CheckpointManager.should_process_batch; elapsed is
\* "time.time() - self.last_checkpoint_time >= self.checkpoint_interval".
EvalTrigger(pending, elapsed) ==
    IF Len(pending) >= min_batch_size
    THEN Len(pending) >= max_batch_size \/ elapsed
    ELSE FALSE

\* process_checkpoint_batch up to its suspension: get_batch_for_processing
\* takes the first min(len, max_batch_size) pending pages; an empty batch
\* returns at once, any other is held by the caller while
\* evaluate_all_applications runs.
process_checkpoint_batch(c, pending) ==
    LET k == Min(Len(pending), max_batch_size)
        batch == SubSeq(pending, 1, k)
    IN  /\ eval_pending' = SubSeq(pending, k + 1, Len(pending))
        /\ eval_holding' = [eval_holding EXCEPT ![c] = batch]
        /\ eval_handed' = eval_handed \o batch

\* add_application_page_with_checkpoint, called by fetch_url for a page that
\* is_application_page accepts: the state manager's list, the pending list,
\* and a batch if should_process_batch says so.
EvalAddPage(w, elapsed) ==
    /\ eval_phase \in {"loop", "drained"}
    /\ eval_holding[w] = <<>>
    /\ Cardinality(eval_found) < MaxEvalPages
    /\ LET page == Cardinality(eval_found) + 1
           pending == Append(eval_pending, page)
       IN  /\ eval_found' = eval_found \cup {page}
           /\ IF EvalTrigger(pending, elapsed)
              THEN process_checkpoint_batch(w, pending)
              ELSE /\ eval_pending' = pending
                   /\ UNCHANGED <<eval_holding, eval_handed>>
    /\ UNCHANGED <<eval_evaluated, eval_phase, eval_results, nonEvalVars>>

\* One pass of the main loop: "if checkpoint_manager and await
\* checkpoint_manager.should_process_batch(): await
\* process_checkpoint_batch()".
EvalLoopPass(elapsed) ==
    /\ eval_phase = "loop"
    /\ eval_holding["main"] = <<>>
    /\ EvalTrigger(eval_pending, elapsed)
    /\ process_checkpoint_batch("main", eval_pending)
    /\ UNCHANGED <<eval_found, eval_evaluated, eval_phase, eval_results,
                   nonEvalVars>>

\* The main loop is left: "if checkpoint_manager: await
\* process_checkpoint_batch()", one call.
EvalLoopExit ==
    /\ eval_phase = "loop"
    /\ eval_holding["main"] = <<>>
    /\ eval_phase' = "drained"
    /\ process_checkpoint_batch("main", eval_pending)
    /\ UNCHANGED <<eval_found, eval_evaluated, eval_results, nonEvalVars>>

\* evaluate_all_applications returns and add_evaluated_applications extends
\* the evaluated list by the batch.
EvalBatchEvaluated(c) ==
    /\ eval_holding[c] # <<>>
    /\ eval_evaluated' = eval_evaluated \o eval_holding[c]
    /\ eval_holding' = [eval_holding EXCEPT ![c] = <<>>]
    /\ UNCHANGED <<eval_found, eval_pending, eval_handed, eval_phase,
                   eval_results, nonEvalVars>>

\* The worker's wait_for around fetch_url times out while the batch is being
\* evaluated: CancelledError is raised at the suspension and is no
\* Exception, so nothing of process_checkpoint_batch runs after it.
EvalFetchTimeout(w) ==
    /\ eval_phase \in {"loop", "drained"}
    /\ eval_holding[w] # <<>>
    /\ eval_holding' = [eval_holding EXCEPT ![w] = <<>>]
    /\ UNCHANGED <<eval_found, eval_pending, eval_evaluated, eval_handed,
                   eval_phase, eval_results, nonEvalVars>>

\* The finally block of the crawl: after the wait for url_queue.join() the
\* workers are cancelled, whatever they are doing.
EvalWorkersCancelled ==
    /\ eval_phase = "drained"
    /\ eval_holding["main"] = <<>>
    /\ eval_phase' = "final"
    /\ eval_holding' = [c \in EvalCallers |-> <<>>]
    /\ UNCHANGED <<eval_found, eval_pending, eval_evaluated, eval_handed,
                   eval_results, nonEvalVars>>

\* The result set of the run.  evaluated_results is the checkpoint
\* manager's evaluated list; the pages of the state manager that are not in
\* it are evaluated (or, on the timeout, taken as they are) only "if
\* found_applications and not evaluated_results".
final_evaluated_results(found, evaluated) ==
    IF evaluated # {} THEN evaluated ELSE found

\* The end of the run, without a forced exit.
EvalFinalResults ==
    /\ eval_phase = "final"
    /\ eval_phase' = "done"
    /\ eval_results' =
           final_evaluated_results(eval_found, EvalRange(eval_evaluated))
    /\ UNCHANGED <<eval_found, eval_pending, eval_evaluated, eval_holding,
                   eval_handed, nonEvalVars>>

\* ------------------------------------------------------------------------
\* The asyncio locks of the frontier (crawler/queue.py), the crawl state
\* (models/state_manager.py), the redirect tracker (crawler/fetcher.py), the
\* shutdown controller (crawler/shutdown.py) and the checkpoint manager
\* (models/checkpoint_manager.py), and the tasks that take them.  A call is
\* the list of its acquisitions and releases in the order of its code.  An
\* acquisition of a free lock succeeds at once; one of a held lock queues
\* the task behind the earlier waiters, and a release hands the lock to the
\* first of them (asyncio.Lock is fair).  Any task may run between two
\* steps of another, which is more interleaving than the event loop
\* produces: it switches tasks at suspensions only.
\* ------------------------------------------------------------------------

LockTasks == PoolWorkers \cup {"monitor", "main"}

\* The tasks that are cancelled: workers by the timeouts around get and
\* fetch_url, workers and monitor at the end of the crawl.
CancelledTasks == PoolWorkers \cup {"monitor"}

LockNames == {"frontier", "domain", "visited", "counter", "applications",
              "redirect", "shutdown", "checkpoint"}

NoLock == "no lock"

NoCall == "no call"

acquire(l) == [op |-> "acquire", lock |-> l]

release(l) == [op |-> "release", lock |-> l]

\* "async with lock:" around code that takes no other lock.
async_with(l) == <<acquire(l), release(l)>>

\* A put whose add_visited_url takes the lock of the frontier once more.
put_locks_Reentrant ==
    async_with("counter")
    \o <<acquire("frontier")>> \o async_with("frontier")
    \o async_with("counter") \o <<release("frontier")>>

\* URLPriorityQueue.put: should_enforce_url_limit, then under self.lock
\* add_visited_url and increment_queued_counter.
put_locks ==
    async_with("counter")
    \o <<acquire("frontier")>> \o async_with("visited")
    \o async_with("counter") \o <<release("frontier")>>

\* The locks of each call.
LockScript(call) ==
    CASE call = "put" -> put_locks
      [] call = "get" -> async_with("domain")
      [] call = "get_counters" -> async_with("counter")
      [] call = "start_tracking" -> async_with("redirect")
      [] call = "add_application_page" ->
             async_with("applications") \o async_with("checkpoint")
      [] call = "get_batch_for_processing" -> async_with("checkpoint")
      [] call = "is_shutdown_requested" -> async_with("shutdown")

\* Every call.
LockCallNames ==
    {"put", "get", "get_counters", "start_tracking",
     "add_application_page", "get_batch_for_processing",
     "is_shutdown_requested"}

\* The calls of each task: a worker's loop with fetch_url and queue_links,
\* the monitor's loop, the main loop.
LockCalls(t) ==
    IF t \in PoolWorkers
    THEN {"put", "get", "start_tracking", "add_application_page",
          "is_shutdown_requested"}
    ELSE IF t = "monitor"
    THEN {"get_counters"}
    ELSE {"is_shutdown_requested", "get_batch_for_processing"}

\* The task waits in the queue of a lock.
Waits(t) == lock_wants[t] # NoLock

\* The step the task is at.
LockStep(t) == LockScript(lock_call[t])[lock_pc[t]]

\* The position after one more step of a call, and the call and position
\* of a task that has made its last step.
LockReturn(call, at) == at > Len(LockScript(call))

\* Lock.release: the first waiter is woken and has the lock.
NextHolder(waiters) == IF waiters = <<>> THEN NoTask ELSE Head(waiters)

\* The waiters without the one that is woken.
LockRest(waiters) == IF waiters = <<>> THEN <<>> ELSE Tail(waiters)

\* The waiters without the task t.
LockWithout(waiters, t) ==
    SelectSeq(waiters, LAMBDA u : u # t)

\* The task begins one of its calls.
LockCallStarts(t, call) ==
    /\ lock_call[t] = NoCall
    /\ call \in LockCalls(t)
    /\ lock_call' = [lock_call EXCEPT ![t] = call]
    /\ lock_pc' = [lock_pc EXCEPT ![t] = 1]
    /\ UNCHANGED <<lock_holder, lock_waiters, lock_wants, nonLockVars>>

\* Lock.acquire
LockAcquire(t) ==
    /\ lock_call[t] # NoCall
    /\ ~Waits(t)
    /\ LockStep(t).op = "acquire"
    /\ LET l == LockStep(t).lock
       IN  IF lock_holder[l] = NoTask
           THEN /\ lock_holder' = [lock_holder EXCEPT ![l] = t]
                /\ lock_pc' = [lock_pc EXCEPT ![t] = @ + 1]
                /\ UNCHANGED <<lock_waiters, lock_wants>>
           ELSE /\ lock_waiters' =
                       [lock_waiters EXCEPT ![l] = Append(@, t)]
                /\ lock_wants' = [lock_wants EXCEPT ![t] = l]
                /\ UNCHANGED <<lock_holder, lock_pc>>
    /\ UNCHANGED <<lock_call, nonLockVars>>

\* Lock.release at the end of an "async with"; the woken waiter is past its
\* acquire, and a call that has made its last step returns.
LockRelease(t) ==
    /\ lock_call[t] # NoCall
    /\ ~Waits(t)
    /\ LockStep(t).op = "release"
    /\ LET l == LockStep(t).lock
           woken == NextHolder(lock_waiters[l])
       IN  /\ lock_holder' = [lock_holder EXCEPT ![l] = woken]
           /\ lock_waiters' = [lock_waiters EXCEPT ![l] = LockRest(@)]
           /\ lock_wants' =
                  [u \in LockTasks |->
                      IF u = woken THEN NoLock ELSE lock_wants[u]]
           /\ lock_call' =
                  [lock_call EXCEPT
                      ![t] = IF LockReturn(@, lock_pc[t] + 1)
                             THEN NoCall ELSE @]
           /\ lock_pc' =
                  [u \in LockTasks |->
                      IF u = t
                      THEN IF LockReturn(lock_call[t], lock_pc[t] + 1)
                           THEN 0 ELSE lock_pc[t] + 1
                      ELSE IF u = woken THEN lock_pc[u] + 1
                      ELSE lock_pc[u]]
    /\ UNCHANGED nonLockVars

\* The task is cancelled inside a call: CancelledError leaves every
\* "async with" it is in, which releases the lock, and a waiting acquire
\* leaves the queue.
LockCancelled(t) ==
    /\ t \in CancelledTasks
    /\ lock_call[t] # NoCall
    /\ LET woken(l) == IF lock_holder[l] = t
                       THEN NextHolder(lock_waiters[l])
                       ELSE NoTask
           wokenTasks == {woken(l) : l \in LockNames} \ {NoTask}
       IN  /\ lock_holder' =
                  [l \in LockNames |->
                      IF lock_holder[l] = t THEN woken(l)
                      ELSE lock_holder[l]]
           /\ lock_waiters' =
                  [l \in LockNames |->
                      IF lock_holder[l] = t THEN LockRest(lock_waiters[l])
                      ELSE LockWithout(lock_waiters[l], t)]
           /\ lock_wants' =
                  [u \in LockTasks |->
                      IF u = t \/ u \in wokenTasks THEN NoLock
                      ELSE lock_wants[u]]
           /\ lock_pc' =
                  [u \in LockTasks |->
                      IF u = t THEN 0
                      ELSE IF u \in wokenTasks THEN lock_pc[u] + 1
                      ELSE lock_pc[u]]
    /\ lock_call' = [lock_call EXCEPT ![t] = NoCall]
    /\ UNCHANGED nonLockVars

Init ==
    /\ queue = {}
    /\ unfinished_tasks = 0
    /\ url_set = {}
    /\ domain_counts = [d \in Domains |-> 0]
    /\ domain_last_access = [d \in Domains |-> 0]
    /\ current_size = 0
    /\ lockHolder = [d \in Domains |-> None]
    /\ lockWaiters = [d \in Domains |-> <<>>]
    /\ visited_urls = {}
    /\ total_urls_queued = 0
    /\ pc = [w \in Workers |-> "idle"]
    /\ item = [w \in Workers |-> NoItem]
    /\ current_time = [w \in Workers |-> 0]
    /\ wake = [w \in Workers |-> 0]
    /\ deadline = [w \in Workers |-> 0]
    /\ now = StartTime
    /\ admit_count = [u \in Urls |-> 0]
    /\ admit_priority = [u \in Urls |-> -1]
    /\ fifo = <<>>
    /\ return_count = [u \in Urls |-> 0]
    /\ last_return = [d \in Domains |-> 0]
    /\ put_result = None
    /\ links_put = [w \in Workers |-> 0]
    /\ redirect_chains = [o \in Origins |-> <<>>]
    /\ redirect_results = [o \in Origins |-> <<>>]
    /\ domain_visit_counts = [d \in Domains |-> 0]
    /\ total_urls_visited = 0
    /\ fetched = {}
    /\ fetch_task = NoItem
    /\ fetch_links = {}
    /\ crawler_running = TRUE
    /\ main_pc = "loop"
    /\ monitor_pc = "loop"
    /\ stop_calls = 0
    /\ empty_seen = [who \in {"main", "monitor"} |-> 0]
    /\ ended_by_empty = {}
    /\ task_depth = [b \in Branches |-> MAX_DEPTH]
    /\ levels_beyond = [b \in Branches |-> 0]
    /\ last_fetch = NoFetch
    /\ handler = "default"
    /\ run_pc = "configure"
    /\ force_exit_event = FALSE
    /\ timers = {}
    /\ flag_shutdown_requested = FALSE
    /\ shutdown_requested = FALSE
    /\ signals = 0
    /\ since_signal = 0
    /\ site_pc = "start"
    /\ site_queue = {}
    /\ site_url_set = {}
    /\ site_visited = {}
    /\ site_links = {}
    /\ url_query = <<>>
    /\ norm_pc = "input"
    /\ normalized = <<>>
    /\ renormalized = <<>>
    /\ wk_pc = [w \in PoolWorkers |-> "start"]
    /\ wk_task = [w \in PoolWorkers |-> NoTask]
    /\ wk_queue = {}
    /\ wk_put = {}
    /\ active_tasks = {}
    /\ wk_running = TRUE
    /\ wk_shutdown = FALSE
    /\ wk_limit = FALSE
    /\ errors = [w \in PoolWorkers |-> 0]
    /\ consecutive_timeouts = [w \in PoolWorkers |-> 0]
    /\ wk_done = [u \in PoolUrls |-> 0]
    /\ wk_last = [w \in PoolWorkers |-> None]
    /\ wk_exit = [w \in PoolWorkers |-> None]
    /\ evaluated_applications = <<>>
    /\ checkpoint_writes = {}
    /\ crit_chains = [u \in CritUrls |-> <<>>]
    /\ crit_frontier = {}
    /\ crit_visited = {}
    /\ crit_origin = NoUrl
    /\ crit_submitted = {}
    /\ domain_rate_limits = [d \in RateDomains |-> default_delay]
    /\ domain_fetch_counts = [d \in RateDomains |-> 0]
    /\ rate_last = [domain |-> "d1", outcome |-> "none", slept |-> 0]
    /\ stop_pc = [w \in PoolWorkers |-> "getting"]
    /\ stop_queue = MaxStopTasks
    /\ stop_running = TRUE
    /\ stop_shutdown = FALSE
    /\ stop_after = [w \in PoolWorkers |-> FALSE]
    /\ stop_requests = {}
    /\ store_heap = {}
    /\ store_submitted = [u \in PoolUrls |-> -1]
    /\ status_url_set = {}
    /\ status_visited = {}
    /\ status_heap = {}
    /\ status_counters = [visited |-> 0, domain |-> 0]
    /\ status_candidates = {}
    /\ status_fetches = [u \in PoolUrls |-> 0]
    /\ status_non200 = {}
    /\ trail_log = {}
    /\ eval_found = {}
    /\ eval_pending = <<>>
    /\ eval_evaluated = <<>>
    /\ eval_holding = [c \in EvalCallers |-> <<>>]
    /\ eval_handed = <<>>
    /\ eval_phase = "loop"
    /\ eval_results = {}
    /\ lock_holder = [l \in LockNames |-> NoTask]
    /\ lock_waiters = [l \in LockNames |-> <<>>]
    /\ lock_wants = [t \in LockTasks |-> NoLock]
    /\ lock_call = [t \in LockTasks |-> NoCall]
    /\ lock_pc = [t \in LockTasks |-> 0]
    /\ pending_applications = <<>>
    /\ last_checkpoint_time = 0
    /\ checkpoint_clock = 0
    /\ checkpoint_call = [n |-> 0, op |-> "none", triggered |-> FALSE,
                          batch |-> <<>>]

Next ==
    \/ \E u \in Urls : SeedPut(u)
    \/ \E w \in Workers, u \in Urls, p \in PutPriorities : FetchPut(w, u, p)
    \/ \E w \in Workers : StartGet(w)
    \/ \E w \in Workers : ItemAvailable(w)
    \/ \E w \in Workers : LockGranted(w)
    \/ \E w \in Workers : SleepWake(w)
    \/ \E w \in Workers : GetTimeout(w)
    \/ \E w \in Workers : SkipTask(w)
    \/ \E w \in Workers : FetchDone(w)
    \/ Tick(MaxTime)

Spec == Init /\ [][Next]_vars

\* A crawl whose pages carry no links: the seeds are all that is ever put.
NextPacing ==
    \/ \E u \in Urls : SeedPut(u)
    \/ \E w \in Workers : StartGet(w)
    \/ \E w \in Workers : ItemAvailable(w)
    \/ \E w \in Workers : LockGranted(w)
    \/ \E w \in Workers : SleepWake(w)
    \/ \E w \in Workers : GetTimeout(w)
    \/ \E w \in Workers : SkipTask(w)
    \/ \E w \in Workers : FetchDone(w)
    \/ Tick(MaxPacingTime)

SpecPacing == Init /\ [][NextPacing]_vars

NextRedirect ==
    \/ \E o \in Origins : start_tracking(o)
    \/ \E o \in Origins, r \in RedirectUrls : add_redirect(o, r)

SpecRedirect == Init /\ [][NextRedirect]_vars

NextCheckpoint ==
    \/ \E page \in Pages : add_application_page(page)
    \/ get_batch_for_processing
    \/ CheckpointTick

SpecCheckpoint == Init /\ [][NextCheckpoint]_vars

NextFetch ==
    \/ \E u \in Urls : FetchSeedPut(u)
    \/ \E f \in Urls, ok \in BOOLEAN, L \in PageLinks : FetchTaskStart(f, ok, L)
    \/ \E l \in fetch_links : FetchLinkPut(l)
    \/ FetchTaskDone

SpecFetch == Init /\ [][NextFetch]_vars

\* The pages of SpecControl carry at most one link, an ordinary one.
ControlPageLinks ==
    {L \in PageLinks : Cardinality(L) <= 1 /\ \A l \in L : l.priority = 4}

NextControl ==
    \/ \E u \in Urls : ControlSeedPut(u)
    \/ \E f \in Urls, ok \in BOOLEAN, L \in ControlPageLinks :
           ControlFetchStart(f, ok, L)
    \/ \E l \in fetch_links : ControlLinkPut(l)
    \/ ControlTaskDone
    \/ MainLoopPass
    \/ MainFinally
    \/ MonitorPass

SpecControl == Init /\ [][NextControl]_vars

NextDepth ==
    \/ \E b \in Branches, extend_depth \in BOOLEAN, n \in 0..MaxSurviving :
           ExpandPage(b, extend_depth, n)
    \/ \E b \in Branches, extend_depth \in BOOLEAN, n \in 0..MaxSurviving :
           FetchLeafPage(b, extend_depth, n)
    \/ \E b \in Branches, n \in 0..MaxSurviving : FollowCriticalLink(b, n)

SpecDepth == Init /\ [][NextDepth]_vars

NextShutdown ==
    \/ InstallEnhancedHandler
    \/ MainSetupSignalHandlers
    \/ SignalReceived
    \/ \E leave \in BOOLEAN : MainLoopShutdownCheck(leave)
    \/ MainReturns
    \/ force_exit
    \/ ShutdownTick

SpecShutdown == Init /\ [][NextShutdown]_vars

NextSite ==
    \/ SitePrepare
    \/ \E L \in SitePages : SiteFetchSeed(L)

SpecSite == Init /\ [][NextSite]_vars

NextNormalize ==
    \/ \E c \in QueryChars : AppendQueryChar(c)
    \/ NormalizeTwice

SpecNormalize == Init /\ [][NextNormalize]_vars

NextWorker ==
    \/ \E u \in PoolUrls : PoolPut(u)
    \/ \E w \in PoolWorkers : WorkerStart(w)
    \/ \E w \in PoolWorkers, u \in PoolUrls : GetReturns(w, u)
    \/ \E w \in PoolWorkers : GetTimesOut(w)
    \/ \E w \in PoolWorkers : GetCancelled(w)
    \/ \E w \in PoolWorkers, o \in FetchOutcomes : FetchEnds(w, o)
    \/ \E w \in PoolWorkers, c \in BOOLEAN : HandlerSleepEnds(w, c)
    \/ PoolStopCrawler
    \/ request_shutdown
    \/ PoolLimitReached

SpecWorker == Init /\ [][NextWorker]_vars

NextPersist ==
    \/ \E page \in Pages : add_application_page(page)
    \/ get_batch_for_processing
    \/ CheckpointTick
    \/ \E applications \in EvaluatedBatches :
           add_evaluated_applications(applications)
    \/ save_crawler_state

SpecPersist == Init /\ [][NextPersist]_vars

NextCritical ==
    \/ \E u \in CritUrls : CritSeedPut(u)
    \/ \E o \in CritUrls : CritFetchStart(o)
    \/ \E f \in CritUrls, admission \in BOOLEAN, L \in SUBSET CritUrls :
           CritResponse(f, admission, L)

SpecCritical == Init /\ [][NextCritical]_vars

NextRate ==
    \E d \in RateDomains, outcome \in RateOutcomes : RateFetchUrl(d, outcome)

SpecRate == Init /\ [][NextRate]_vars

NextStop ==
    \/ \E w \in PoolWorkers : StopGetReturns(w)
    \/ \E w \in PoolWorkers : StopGetTimesOut(w)
    \/ \E w \in PoolWorkers : StopRequestStarts(w)
    \/ \E w \in PoolWorkers, n \in 0..MaxStopLinks : StopFetchEnds(w, n)
    \/ StopShutdownRequested
    \/ StopCrawlerStopped
    \/ \E w \in PoolWorkers : StopWorkerCancelled(w)

SpecStop == Init /\ [][NextStop]_vars

NextStore ==
    \E priority \in StorePriorities, url \in PoolUrls, depth \in StoreDepths :
        StorePut(priority, url, depth)

SpecStore == Init /\ [][NextStore]_vars

NextStatus ==
    \/ \E u \in PoolUrls : StatusSeedPut(u)
    \/ \E u \in PoolUrls, status \in ResponseStatuses, is_app_page \in BOOLEAN,
          L \in SUBSET PoolUrls : StatusFetch(u, status, is_app_page, L)

SpecStatus == Init /\ [][NextStatus]_vars

NextTrail ==
    \E url \in TrailTaskUrls, response \in TrailUrls : TrailFetch(url, response)

SpecTrail == Init /\ [][NextTrail]_vars

NextEval ==
    \/ \E w \in PoolWorkers, elapsed \in BOOLEAN : EvalAddPage(w, elapsed)
    \/ \E elapsed \in BOOLEAN : EvalLoopPass(elapsed)
    \/ EvalLoopExit
    \/ \E c \in EvalCallers : EvalBatchEvaluated(c)
    \/ \E w \in PoolWorkers : EvalFetchTimeout(w)
    \/ EvalWorkersCancelled
    \/ EvalFinalResults

SpecEval == Init /\ [][NextEval]_vars

NextLock ==
    \/ \E t \in LockTasks, call \in LockCallNames :
           LockCallStarts(t, call)
    \/ \E t \in LockTasks : LockAcquire(t)
    \/ \E t \in LockTasks : LockRelease(t)
    \/ \E t \in LockTasks : LockCancelled(t)

SpecLock == Init /\ [][NextLock]_vars

\* The event loop runs every task that can run: a task inside a call makes
\* its next step.  Nothing obliges a task to begin a call or to be
\* cancelled.
FairSpecLock ==
    /\ SpecLock
    /\ \A t \in LockTasks : WF_vars(LockAcquire(t) \/ LockRelease(t))

TypeOK ==
    /\ unfinished_tasks \in Nat
    /\ url_set \subseteq Urls
    /\ visited_urls \subseteq url_set
    /\ total_urls_queued \in Nat
    /\ now \in StartTime..MaxPacingTime
    /\ \A w \in Workers : pc[w] \in {"idle", "wait_item", "wait_lock",
                                     "sleep", "skipping", "fetching"}
    /\ \A w \in Workers : links_put[w] \in 0..MaxLinksPerPage
    /\ \A o \in Origins : Len(redirect_chains[o]) \in 0..(MaxHops + 1)

\* ------------------------------------------------------------------------
\* Properties of the frontier
\* ------------------------------------------------------------------------

Admitted == {u \in Urls : admit_count[u] > 0}

\* C1: of all put calls that carry the same URL at most one returns true:
\* no URL is admitted twice, and once a URL has passed the duplicate check
\* every later put of it returns false, whatever its priority.
C1_AtMostOnePutSucceeds ==
    /\ \A u \in Urls : admit_count[u] <= 1
    /\ \A u \in url_set, p \in PutPriorities : ~put_returns(u, p)

\* A put of a URL that had been admitted before has returned false at the
\* duplicate check.
C1_Witness ==
    /\ put_result = "duplicate"
    /\ Admitted # {}
    /\ Admitted = url_set

\* C2: every task that put admitted is returned by get exactly once: it is
\* never returned twice, and as long as it has not been returned it is in
\* the frontier, that is in the heap or in the hands of a get call that has
\* popped it and waits for the domain lock.
C2_AdmittedTaskReturnedOnce ==
    \A u \in Admitted :
        /\ return_count[u] <= 1
        /\ \/ return_count[u] = 1
           \/ \E it \in queue : it.url = u
           \/ \E w \in Workers : pc[w] = "wait_lock" /\ item[w].url = u

\* The tasks that a worker has taken from get and not yet marked done.
InProcess == {item[w].url : w \in {x \in Workers :
                                      pc[x] \in {"skipping", "fetching"}}}

\* Every admitted task has been returned by get and marked done.
AllAdmittedDone ==
    /\ Admitted # {}
    /\ \A u \in Admitted : return_count[u] = 1 /\ u \notin InProcess

\* Queue.join returns at once when _unfinished_tasks is 0.
JoinReturns == unfinished_tasks = 0

\* C3: once every admitted task has been returned by get and marked done,
\* join returns, also after pacing requeues.
C3_JoinReturnsWhenAllDone == AllAdmittedDone => JoinReturns

\* C4: a return of get for a task of a domain comes at least
\* domain_rate_limit of wall-clock time after the previous return of get for
\* a task of that domain.
C4_ReturnsOfDomainSpaced ==
    [][\A u \in Urls :
          (return_count'[u] > return_count[u]
           /\ last_return[Netloc(u)] > 0)
              => now - last_return[Netloc(u)] >= domain_rate_limit]_vars

\* C5: the per-domain queued counter never exceeds max_per_domain, and when
\* a domain's counter equals the cap a put for that domain with a
\* non-critical priority returns false.
C5_DomainCounterCapped ==
    /\ \A d \in Domains : domain_counts[d] <= max_per_domain
    /\ \A u \in Urls, p \in PutPriorities :
           (domain_counts[Netloc(u)] = max_per_domain /\ p > 3)
               => ~put_returns(u, p)

\* A put of an unseen URL has been turned down at the per-domain cap.
C5_Witness ==
    /\ put_result = "domain_cap"
    /\ \E u \in url_set \ Admitted : domain_counts[Netloc(u)] = max_per_domain

AdmitsToFullFrontier(u) ==
    /\ admit_count'[u] = admit_count[u] + 1
    /\ current_size >= max_memory_size

\* C32 as claimed: with max_memory_size tasks or more in the frontier a put
\* with a priority value above 3 returns false and a put of an unseen URL
\* with a priority value of 3 or less is admitted.
C32_CriticalAdmittedWhenFull ==
    current_size >= max_memory_size =>
        /\ \A u \in Urls, p \in PutPriorities : p > 3 => ~put_returns(u, p)
        /\ \A u \in Urls \ url_set, p \in PutPriorities :
               p <= 3 => put_returns(u, p)

\* C32 amended: with max_memory_size tasks or more in the frontier a put
\* with a priority value above 3 returns false, and a put of an unseen URL
\* with a priority value of 3 or less is admitted provided the URL's domain
\* is below its cap and the global limit is not reached; every task that is
\* admitted to a full frontier has a priority value of 3 or less.
C32_CriticalAdmittedWhenFullBelowCaps ==
    /\ [](current_size >= max_memory_size =>
             /\ \A u \in Urls, p \in PutPriorities :
                    p > 3 => ~put_returns(u, p)
             /\ \A u \in Urls \ url_set, p \in PutPriorities :
                    (/\ p <= 3
                     /\ domain_counts[Netloc(u)] < max_per_domain
                     /\ total_urls_queued < MAX_TOTAL_URLS)
                        => put_returns(u, p))
    /\ [][\A u \in Urls :
              AdmitsToFullFrontier(u) => admit_priority'[u] <= 3]_vars

\* A put with a priority value above 3 has just been turned down by the full
\* frontier, after more than max_memory_size seeds had been admitted (seeds
\* are put before any get, so the last of them was admitted to a full
\* frontier).
C32_Witness ==
    /\ put_result = "full"
    /\ current_size >= max_memory_size
    /\ Cardinality(Admitted) > max_memory_size
    /\ \A u \in Admitted : admit_priority[u] <= 3

\* C35: a put that returns false because of the per-domain cap or of a full
\* frontier leaves the frontier unchanged, url_set included (which only put
\* changes); so a put of a URL that was never admitted is admitted whenever
\* its domain is below the cap, the frontier is not full and the global
\* limit is not reached.
C35_RejectedPutLeavesNoTrace ==
    /\ [][put_result' \in {"domain_cap", "full"} => url_set' = url_set]_vars
    /\ [](\A u \in Urls \ Admitted, p \in PutPriorities :
              (/\ domain_counts[Netloc(u)] < max_per_domain
               /\ current_size < max_memory_size
               /\ total_urls_queued < MAX_TOTAL_URLS)
                  => put_returns(u, p))

\* C7: the global queued counter never exceeds MAX_TOTAL_URLS, and once it
\* has reached the limit every put returns false.
C7_GlobalLimit ==
    /\ total_urls_queued <= MAX_TOTAL_URLS
    /\ total_urls_queued >= MAX_TOTAL_URLS
           => \A u \in Urls, p \in PutPriorities : ~put_returns(u, p)

\* A put has been turned down at the global limit.
C7_Witness ==
    /\ put_result = "limit"
    /\ total_urls_queued = MAX_TOTAL_URLS

\* A step in which get pops entry it and returns it at once: the domain
\* lock is free and no pacing delay is in effect for the entry.
PopsAndReturns(it) ==
    /\ it \in queue
    /\ it \notin queue'
    /\ return_count'[it.url] = return_count[it.url] + 1

C9_RepeatedHopRejected ==
    \A o \in Origins :
        /\ \A i \in DOMAIN redirect_results[o] :
               redirect_chains[o][i + 1]
                   \in {redirect_chains[o][k] : k \in 1..i}
                       => ~redirect_results[o][i]
        /\ \A a, b \in RedirectUrls :
               (Cardinality({o, a, b}) = 3
                /\ redirect_chains[o] = <<o, a, b, a>>)
                   => redirect_results[o] = <<TRUE, TRUE, FALSE>>

\* The three calls (o, a), (o, b), (o, a) have been made for an origin.
C9_Witness ==
    \E o \in Origins, a, b \in RedirectUrls :
        /\ Cardinality({o, a, b}) = 3
        /\ redirect_chains[o] = <<o, a, b, a>>
        /\ Len(redirect_results[o]) = 3
        /\ ~redirect_results[o][3]

\* C10: with max_redirects = 5 and pairwise distinct hops, none of them the
\* origin, fed one at a time for one origin, hops 1 to 5 each return true
\* and hop 6 returns false.
C10_FiveDistinctHopsAccepted ==
    \A o \in Origins :
        Cardinality({redirect_chains[o][k] : k \in DOMAIN redirect_chains[o]})
            = Len(redirect_chains[o])
                => \A i \in DOMAIN redirect_results[o] :
                       redirect_results[o][i] = (i <= max_redirects)

\* ------------------------------------------------------------------------
\* Properties of the checkpoint manager
\* ------------------------------------------------------------------------

\* A step that is a call of the checkpoint manager of the given kind.
CheckpointCallStep(kind) ==
    /\ checkpoint_call'.n = checkpoint_call.n + 1
    /\ checkpoint_call'.op = kind

\* C11: add_application_page appends the page to pending and returns true
\* exactly when, after the append, the pending size is at least
\* min_batch_size and (it is at least max_batch_size or at least
\* checkpoint_interval has passed since the last checkpoint time).
C11_AddTriggersExactlyWhenDue ==
    [][CheckpointCallStep("add") =>
          /\ \E page \in Pages :
                 pending_applications' = Append(pending_applications, page)
          /\ checkpoint_call'.triggered <=>
                 /\ Len(pending_applications') >= min_batch_size
                 /\ \/ Len(pending_applications') >= max_batch_size
                    \/ checkpoint_clock - last_checkpoint_time
                           >= checkpoint_interval]_vars

\* add_application_page has returned true below the maximum, because the
\* interval had passed.
C11_Witness ==
    /\ checkpoint_call.op = "add"
    /\ checkpoint_call.triggered
    /\ Len(pending_applications) >= min_batch_size
    /\ Len(pending_applications) < max_batch_size

\* C12: get_batch_for_processing returns the first min(|pending|,
\* max_batch_size) pages of pending in order, removes exactly those and
\* leaves the rest in order; it never returns more than max_batch_size
\* pages, and it resets the checkpoint clock only when the batch is not
\* empty.
C12_BatchIsBoundedPrefix ==
    [][CheckpointCallStep("get") =>
          LET k == Min(Len(pending_applications), max_batch_size)
          IN  /\ checkpoint_call'.batch = SubSeq(pending_applications, 1, k)
              /\ pending_applications' =
                     SubSeq(pending_applications, k + 1,
                            Len(pending_applications))
              /\ Len(checkpoint_call'.batch) <= max_batch_size
              /\ IF checkpoint_call'.batch = <<>>
                 THEN last_checkpoint_time' = last_checkpoint_time
                 ELSE last_checkpoint_time' = checkpoint_clock]_vars

\* A batch of max_batch_size pages has been returned after the interval,
\* and pages are left in pending.
C12_Witness ==
    /\ checkpoint_call.op = "get"
    /\ Len(checkpoint_call.batch) = max_batch_size
    /\ pending_applications # <<>>
    /\ last_checkpoint_time > 0

\* ------------------------------------------------------------------------
\* Properties of the crawl state
\* ------------------------------------------------------------------------

\* C13: the visited set contains every URL that put has admitted and every
\* URL whose page was fetched, the final URL reached after a redirect
\* included.
C13_VisitedCoversAdmittedAndFetched ==
    /\ Admitted \subseteq visited_urls
    /\ fetched \subseteq visited_urls

\* C15: the per-domain visit counter of the crawl state never exceeds
\* MAX_URLS_PER_DOMAIN.
C15_DomainVisitsCapped ==
    \A d \in Domains : domain_visit_counts[d] <= MAX_URLS_PER_DOMAIN

\* ------------------------------------------------------------------------
\* Properties of the run control
\* ------------------------------------------------------------------------

C16_EmptinessConfirmed ==
    \A who \in ended_by_empty : empty_seen[who] >= 2

\* C36: the crawl is declared complete for an empty queue only when no task
\* is in flight: neither the main loop nor the monitor ends the crawl for an
\* empty queue while a worker is fetching a page that has links to put.
C36_EndedForEmptyOnlyWhenIdle ==
    [][ended_by_empty' # ended_by_empty =>
           ~(fetch_task # NoItem /\ fetch_links # {})]_vars

RECURSIVE Outstanding(_)
\* The number of tasks for the URLs in S that put has admitted and get has
\* not returned.
Outstanding(S) ==
    IF S = {} THEN 0
    ELSE LET u == CHOOSE x \in S : TRUE
         IN  (admit_count[u] - return_count[u]) + Outstanding(S \ {u})

\* qsize(), which returns current_size, and the queued counter of every
\* domain count the tasks admitted and not returned.
CountersAreOutstandingTasks ==
    /\ current_size = Outstanding(Urls)
    /\ \A d \in Domains :
           domain_counts[d] = Outstanding({u \in Urls : Netloc(u) = d})

\* A step in which get returns a task lowers current_size and the counter of
\* the task's domain by one; a step in which get pushes a task back (the heap
\* gets an entry and put has admitted nothing) changes neither.
GetStepOnCounters ==
    /\ \A u \in Urls :
           return_count'[u] = return_count[u] + 1 =>
               /\ current_size' = current_size - 1
               /\ domain_counts'[Netloc(u)] = domain_counts[Netloc(u)] - 1
    /\ (queue' \ queue # {} /\ admit_count' = admit_count) =>
           UNCHANGED <<current_size, domain_counts>>

\* C29: in every reachable state qsize() is the number of tasks admitted by
\* put and not yet returned by get, and the queued counter of each domain is
\* the number of such tasks of the domain; a get that returns a task lowers
\* both by one and a pacing requeue inside get changes neither.
C29_CountersAreOutstandingTasks ==
    []CountersAreOutstandingTasks /\ [][GetStepOnCounters]_vars

\* A task has been returned by get while another, admitted too, has been
\* pushed back by the pacing of get and is in the heap with a priority
\* value above the one it was admitted with.
C29_Witness ==
    /\ \E u \in Urls : return_count[u] > 0
    /\ \E it \in queue : it.priority > admit_priority[it.url]
    /\ current_size > 0

\* ------------------------------------------------------------------------
\* Properties of the depth management
\* ------------------------------------------------------------------------

\* C17: once the normal depth budget of a branch is used up, the depth goes
\* one step further negative at each expansion of an admission page and
\* expansion stops at -MAX_ADMISSION_DEPTH, so that no branch is expanded
\* more than MAX_ADMISSION_DEPTH levels beyond the normal budget.
C17_ExtendedDepthBounded ==
    \A b \in Branches :
        /\ levels_beyond[b] <= MAX_ADMISSION_DEPTH
        /\ task_depth[b] >= -MAX_ADMISSION_DEPTH
        /\ levels_beyond[b] > 0 => task_depth[b] <= -levels_beyond[b]

C25_WitnessAbove ==
    /\ last_fetch.fetched /\ ~last_fetch.extend_depth
    /\ last_fetch.depth > 0
    /\ Len(last_fetch.submitted) > 0

\* C27: for pages that are not admission pages, the link limit of a seed
\* page, whose task carries the full depth budget MAX_DEPTH, is at least the
\* link limit of a deep page, whose task has depth 1, the last depth at
\* which such a page is expanded.
C27_ShallowLimitAtLeastDeep ==
    \A b \in Branches :
        task_depth[b] = 1 => PageLinkLimit(MAX_DEPTH) >= PageLinkLimit(task_depth[b])

\* ------------------------------------------------------------------------
\* Properties of the shutdown
\* ------------------------------------------------------------------------

\* C18: once an interrupt or terminate signal has been received, the process
\* does not run on past the shutdown timeout: if the graceful shutdown has
\* not finished by then, the watchdog timer has terminated the process.
C18_WatchdogEndsOverdueShutdown ==
    (signals > 0 /\ since_signal > shutdown_timeout) => ~Running

\* ------------------------------------------------------------------------
\* Properties of the crawl of one target
\* ------------------------------------------------------------------------

\* C19: when the seed page of https://u.edu links to /apply/first-year and
\* to /news/1, then after the seed has been fetched the frontier holds a
\* task for each of the two, the first with the lower priority value, and
\* the visited set holds both URLs and the seed.
C19_BothLinksQueuedAndVisited ==
    (site_pc = "fetched" /\ {ApplyFirstYear, NewsOne} \subseteq site_links) =>
        /\ \E a, n \in site_queue :
               /\ a.url = ApplyFirstYear
               /\ n.url = NewsOne
               /\ a.priority < n.priority
        /\ {ApplyFirstYear, NewsOne, SeedPath} \subseteq site_visited

\* C26: from one fetched page queue_links submits at most link_limit links
\* to the frontier, and they are the links with the smallest priority values
\* among the links of the page that passed the filter.
C26_TopLinksSubmitted ==
    site_pc = "fetched" =>
        LET F == filtered_links(site_links, {SeedPath})
        IN  /\ Cardinality(site_queue) <= link_limit
            /\ Cardinality(site_queue) = Min(Cardinality(F), link_limit)
            /\ site_queue \subseteq F
            /\ \A a \in site_queue, b \in F \ site_queue :
                   a.priority <= b.priority

\* The seed page has been fetched and more of its links passed the filter
\* than the limit allows.
C26_Witness ==
    /\ site_pc = "fetched"
    /\ Cardinality(filtered_links(site_links, {SeedPath})) > link_limit
    /\ Cardinality(site_queue) = link_limit

\* ------------------------------------------------------------------------
\* Properties of normalize_url
\* ------------------------------------------------------------------------

\* C20: normalize_url is idempotent: applied to its own result it returns
\* that result, also for a URL whose query holds an encoded "&" (%26) and
\* for a URL that holds the removed sequence %22.
C20_NormalizeIdempotent == norm_pc = "done" => renormalized = normalized

\* ------------------------------------------------------------------------
\* Properties of the worker loop
\* ------------------------------------------------------------------------

\* C21: an exception raised while a task is processed does not end the
\* worker: a worker's loop ends only because the crawler was stopped, a
\* shutdown was requested or the worker was cancelled; a task that is no
\* longer processed is not registered, and task_done was called exactly
\* once for it.
C21_ExceptionLeavesWorkerRunning ==
    /\ \A w \in PoolWorkers :
           wk_pc[w] = "exited" =>
               wk_exit[w] \in {"stopped", "shutdown", "cancelled"}
    /\ \A e \in active_tasks : wk_task[e[1]] = e[2]
    /\ \A u \in PoolUrls :
           wk_done[u] = IF /\ u \in wk_put \ wk_queue
                           /\ \A w \in PoolWorkers : wk_task[w] # u
                        THEN 1 ELSE 0

\* A worker whose last task ended with an exception is processing the next.
C21_Witness ==
    \E w \in PoolWorkers : wk_last[w] = "exception" /\ wk_pc[w] = "fetching"

\* C30: the in-flight set holds exactly one entry for each worker that has
\* dequeued a task and not finished it, so it has at most one entry for a
\* worker and is empty when no worker is processing a task.
C30_InFlightIsDequeuedUnfinished ==
    active_tasks = {<<w, wk_task[w]>> :
                        w \in {v \in PoolWorkers : wk_task[v] # NoTask}}

\* The set is empty again after fetches that ended by cancellation and by
\* exception.
C30_Witness ==
    /\ active_tasks = {}
    /\ \E w, v \in PoolWorkers :
           wk_last[w] = "cancelled" /\ wk_last[v] = "exception"

\* ------------------------------------------------------------------------
\* Order of the returns of one domain
\* ------------------------------------------------------------------------

\* C22: when get returns a task while another task of the same domain is in
\* the frontier, the returned task was not admitted with a larger priority
\* value than the other, pacing requeues or not.
C22_SameDomainByAdmittedPriority ==
    [][\A u \in Urls :
           return_count'[u] = return_count[u] + 1 =>
               \A it \in queue :
                   (it.url # u /\ Netloc(it.url) = Netloc(u)) =>
                       admit_priority[u] <= admit_priority[it.url]]_vars

\* ------------------------------------------------------------------------
\* Properties of the persistence of the checkpoint manager
\* ------------------------------------------------------------------------

\* C23: no file write of the checkpoint manager is made while its lock is
\* held, and every write is given a copy of the lists.
C23_WritesOutsideLockOnCopy ==
    \A w \in checkpoint_writes : ~w.lock_held /\ w.data = "copy"

\* ------------------------------------------------------------------------
\* Properties of the critical application links
\* ------------------------------------------------------------------------

\* C24: a task never hands to put a critical application link that is the
\* URL the task started from or the redirect target its fetch ended on.
C24_ChainLinkNotSubmitted ==
    \A s \in crit_submitted : s.link \notin {s.origin, s.final}

\* ------------------------------------------------------------------------
\* Properties of the politeness delay
\* ------------------------------------------------------------------------

\* C28: when a fetch ends with a request timeout or with a server
\* disconnect, the delay of the task's domain is 1.5 times the delay the
\* fetch slept, capped at 5 seconds; when it ends with another client error
\* the delay is the one the fetch slept.
C28_DelayRaisedOnTimeoutAndDisconnect ==
    LET d == rate_last.domain
    IN  /\ rate_last.outcome \in {"TimeoutError", "ServerDisconnectedError"} =>
               domain_rate_limits[d] = RaisedDelay(rate_last.slept)
        /\ rate_last.outcome \in {"ClientConnectorError", "ClientPayloadError"} =>
               domain_rate_limits[d] = rate_last.slept

\* ------------------------------------------------------------------------
\* Properties of stopping
\* ------------------------------------------------------------------------

\* C31: after stop_crawler has been called or shutdown has been requested a
\* worker goes on with at most the task it holds: no worker starts an HTTP
\* request for a task that it dequeued after the stop.
C31_NoRequestForTaskDequeuedAfterStop ==
    /\ \A r \in stop_requests : ~r.after
    /\ \A w \in PoolWorkers :
           stop_pc[w] \in {"polite", "request"} => ~stop_after[w]

\* ------------------------------------------------------------------------
\* Properties of the stored entry
\* ------------------------------------------------------------------------

\* C33: a task admitted by put with a depth below 0 or of at least MAX_DEPTH
\* - 3 is stored in the frontier with a priority value 5 above the one
\* submitted; every other admitted task is stored with the priority
\* submitted.
C33_DeepTaskStoredDeprioritized ==
    \A e \in store_heap :
        e.priority = IF DeprioritizedDepth(e.depth)
                     THEN store_submitted[e.url] + 5
                     ELSE store_submitted[e.url]

\* ------------------------------------------------------------------------
\* Properties of the response status
\* ------------------------------------------------------------------------

\* A URL whose fetch got a status other than 200 is in the visited set, has
\* been fetched once, is no candidate and is not in the frontier.
Non200UrlIsDone ==
    \A u \in status_non200 :
        /\ u \in status_visited
        /\ u \notin status_heap
        /\ u \notin status_candidates
        /\ status_fetches[u] = 1

\* The step of a fetch that gets a status other than 200 changes neither
\* counter, registers no candidate and admits nothing to the frontier.
Non200StepEffects ==
    \A u \in PoolUrls :
        (u \in status_non200' /\ u \notin status_non200) =>
            /\ UNCHANGED <<status_counters, status_candidates, status_url_set>>
            /\ status_heap' = status_heap \ {u}

C37_NormalizationIsNoRedirectLoop ==
    \A f \in trail_log :
        (f.response # f.url /\ normalize_trailing_slash(f.response) = f.url)
            => f.counted

\* C38: at the end of a run with checkpointing and evaluation, every
\* candidate page registered in the crawl state is in the final evaluated
\* result set, also the pages registered after the last checkpoint batch of
\* the main loop and the pages left pending beyond one batch.
C38_AllCandidatesInFinalResults ==
    eval_phase = "done" => eval_found \subseteq eval_results

\* How often a page occurs in a list.
EvalCount(s, page) == Cardinality({i \in 1..Len(s) : s[i] = page})

\* The pages some caller is evaluating.
EvalHeld == UNION {EvalRange(eval_holding[c]) : c \in EvalCallers}

\* C39: each page added to the checkpoint manager is handed out by
\* get_batch_for_processing in one batch only, also with several callers,
\* and every page handed out is, once its caller is through, in the
\* evaluated list exactly once: none is evaluated twice and none is lost
\* between pending and evaluated.
C39_HandedOutOnceEvaluatedOnce ==
    /\ \A page \in EvalRange(eval_handed) :
           /\ EvalCount(eval_handed, page) = 1
           /\ page \notin EvalRange(eval_pending)
           /\ page \notin EvalHeld => EvalCount(eval_evaluated, page) = 1
    /\ \A page \in EvalRange(eval_evaluated) :
           EvalCount(eval_evaluated, page) = 1

\* The part of C39 that is about the hand-out alone.
HandedOutOnce ==
    /\ \A page \in EvalRange(eval_handed) :
           /\ EvalCount(eval_handed, page) = 1
           /\ page \notin EvalRange(eval_pending)
           /\ EvalCount(eval_evaluated, page) <= 1
    /\ EvalRange(eval_evaluated) \subseteq EvalRange(eval_handed)

RECURSIVE LockRuns(_, _)

\* The task runs, or waits for a lock whose holder runs, and so on along at
\* most n holders.
LockRuns(t, n) ==
    \/ ~Waits(t)
    \/ /\ n > 0
       /\ lock_holder[lock_wants[t]] # t
       /\ LockRuns(lock_holder[lock_wants[t]], n - 1)

\* No set of tasks waits for locks held inside the set.
NoLockDeadlock ==
    \A t \in LockTasks : LockRuns(t, Cardinality(LockTasks))

\* C40: no interleaving of the workers, the monitor and the main loop
\* deadlocks on the locks of the frontier, the crawl state, the redirect
\* tracker, the shutdown controller and the checkpoint manager, and every
\* lock that is requested is eventually granted (a request ends otherwise
\* only when its task is cancelled and gives it up).
C40_NoDeadlockEveryRequestGranted ==
    /\ []NoLockDeadlock
    /\ \A t \in LockTasks : Waits(t) ~> ~Waits(t)

\* A worker waits for the frontier's lock while another task is inside put
\* and holds it together with the lock of the visited set.
C40_Witness ==
    \E t \in PoolWorkers : \E u \in LockTasks \ {t} :
        /\ lock_wants[t] = "frontier"
        /\ lock_holder["frontier"] = u
        /\ lock_holder["visited"] = u

====
